---- MODULE Spec2Model ----
(***************************************************************************)
(* Wolf Creek Pass: the capture-cycle orchestrator (traffic_cam_monitor.py) *)
(* and its two storage backends (storage.py: SQLiteStorage, DynamoStorage). *)
(*                                                                          *)
(* Conventions.  Python's None is the empty tuple and a present optional    *)
(* value v is the one-element tuple <<v>>.  Timestamps (cycle ids,          *)
(* captured_at) are naturals read off a strictly increasing clock; their    *)
(* ISO-8601 strings sort in the same order.  Floats are naturals, and       *)
(* str(float) / float(str) are modelled as tagging / untagging.  Natural    *)
(* ids that storage sorts on (route_id) are naturals in lexicographic rank. *)
(* Entities keep one field of every shape the storage code treats           *)
(* differently (key, required string, optional string, optional float,      *)
(* optional bool, int, optional int, list).  Strings the code builds or     *)
(* appends to (image keys, analysis notes) are token tuples, "" being <<>>. *)
(*                                                                          *)
(* Specifications.  SpecStore: a caller issues Storage calls, applied to    *)
(* both backends side by side.  Spec: capture cycles run one after another  *)
(* on one backend; the outside services fail, storage calls return.         *)
(* SpecFair: Spec with weak fairness of the cycle's steps.                  *)
(* SpecFaults: Spec, and a storage call may raise.                          *)
(* SpecUdot: one call of a route filter or of _fetch on drawn inputs.       *)
(* SpecCli: the command line, its first cycle and its scheduler loop.       *)
(* SpecSensor: requests to the sensor endpoint of reolink_api/handler.py,  *)
(* with its token and response caches, as time passes.                     *)
(***************************************************************************)
EXTENDS Naturals, Integers, Sequences, FiniteSets, TLC

VARIABLES
    sq,        \* SQLiteStorage: the database file (all tables) and images dir
    dy,        \* DynamoStorage: the single table and the S3 bucket
    backend,   \* settings.storage_backend of the running process
    clock,     \* datetime.now(), a logical clock
    pc,        \* position of run_capture_cycle
    cyc,       \* the locals of the running run_capture_cycle
    hist,      \* observation log (ghost): what the cycles and callers did
    ops,       \* number of storage calls of the harness / of cycles started
    env        \* the outside world of a run: the UDOT camera feed and its outages

vars == <<sq, dy, backend, clock, pc, cyc, hist, ops, env>>

-----------------------------------------------------------------------------
(* Python values *)

None == <<>>

Some(v) == <<v>>

\* the items of a sequence, as a set
Range(s) == {s[i] : i \in DOMAIN s}

\* x or d, for a string column
OrStr(x, d) == IF x = None THEN d ELSE IF x[1] = "" THEN d ELSE x[1]

\* x or d, for an integer column
OrInt(x, d) == IF x = None THEN d ELSE IF x[1] = 0 THEN d ELSE x[1]

\* the key-sorted pair list s with the pair p inserted after the last pair
\* whose key is <= p's key
RECURSIVE InsertPair(_, _)
InsertPair(s, p) ==
    IF s = <<>> THEN <<p>>
    ELSE IF p[1] < Head(s)[1] THEN <<p>> \o s
    ELSE <<Head(s)>> \o InsertPair(Tail(s), p)

RECURSIVE SortPairs(_)
SortPairs(s) ==
    IF s = <<>> THEN <<>>
    ELSE InsertPair(SortPairs(SubSeq(s, 1, Len(s) - 1)), s[Len(s)])

\* the list s ordered by Key(_) ascending; rows with equal keys keep their
\* storage order (ORDER BY over rowid order, a DynamoDB index over put order)
SortBy(s, Key(_)) ==
    LET sorted == SortPairs([i \in DOMAIN s |-> <<Key(s[i]), s[i]>>])
    IN  [i \in DOMAIN sorted |-> sorted[i][2]]

\* s reversed
Reverse(s) == [i \in DOMAIN s |-> s[Len(s) + 1 - i]]

\* s[:n]
Take(s, n) == IF Len(s) <= n THEN s ELSE SubSeq(s, 1, n)

\* the elements of s that satisfy P, in order
Filter(s, P(_)) == SelectSeq(s, P)

\* [f(x) for x in s]
Map(s, F(_)) == [i \in DOMAIN s |-> F(s[i])]

\* the map f with key k set to v (INSERT OR REPLACE on a primary key, dict[k] = v)
Upsert(f, k, v) == [x \in DOMAIN f \cup {k} |-> IF x = k THEN v ELSE f[x]]

EmptyMap == [x \in {} |-> None]

\* the keys of a map of naturals, ascending
RECURSIVE SortedKeys(_)
SortedKeys(S) ==
    IF S = {} THEN <<>>
    ELSE LET m == CHOOSE x \in S : \A y \in S : x <= y
         IN  <<m>> \o SortedKeys(S \ {m})

-----------------------------------------------------------------------------
(* storage.py helpers *)

_bool_to_int(val) == IF val = None THEN None ELSE IF val[1] THEN Some(1) ELSE Some(0)

_int_to_bool(val) == IF val = None THEN None ELSE Some(val[1] # 0)

\* Remove None values from a dict
_strip_none(d) == [k \in {a \in DOMAIN d : d[a] # None} |-> d[k]]

\* str(float)
_decimal_safe(val) == IF val = None THEN None ELSE Some(<<"str", val[1]>>)

\* float(str)
_float_safe(val) == IF val = None THEN None ELSE Some(val[1][2])

_int_safe(val) == IF val = None THEN None ELSE Some(val[1])

\* item.get(k): the boxed attribute, or None
Get(item, k) == IF k \in DOMAIN item THEN item[k] ELSE None

\* item.get(k, default)
GetOr(item, k, default) == IF k \in DOMAIN item THEN item[k][1] ELSE default

-----------------------------------------------------------------------------
(* SQLiteStorage.  A database is a record of tables.  Tables with a declared *)
(* PRIMARY KEY are maps from the key to the row; AUTOINCREMENT tables are    *)
(* row lists in rowid order.  A row is a record of column values, NULL being *)
(* None and a value v being <<v>>.                                           *)

\* SQLiteStorage.init on a fresh path: CREATE TABLE IF NOT EXISTS ...
SQLiteStorage_init ==
    [cameras |-> EmptyMap, captures |-> <<>>, routes |-> EmptyMap,
     cycles |-> EmptyMap, road_conditions |-> <<>>, events |-> <<>>,
     weather |-> <<>>, image_hashes |-> EmptyMap, images |-> EmptyMap]

SQLiteStorage_save_camera(db, camera) ==
    [db EXCEPT !.cameras = Upsert(@, camera.Id,
        [id |-> Some(camera.Id), location |-> camera.Location,
         latitude |-> camera.Latitude,
         distance_from_route_km |-> camera.distance_from_route_km])]

SQLiteStorage_get_cameras(db) ==
    LET ids == SortedKeys(DOMAIN db.cameras)
        row(i) == db.cameras[ids[i]]
    IN  [i \in DOMAIN ids |->
            [Id |-> row(i).id[1], Location |-> row(i).location,
             Latitude |-> row(i).latitude, Views |-> <<>>,
             distance_from_route_km |-> row(i).distance_from_route_km]]

SQLiteStorage_save_capture(db, capture) ==
    [db EXCEPT !.captures = Append(@,
        [camera_id |-> Some(capture.camera_id), cycle_id |-> Some(capture.cycle_id),
         captured_at |-> Some(capture.captured_at),
         image_key |-> Some(capture.image_key),
         has_snow |-> _bool_to_int(capture.has_snow),
         analysis_notes |-> Some(capture.analysis_notes),
         location |-> capture.location, latitude |-> capture.latitude])]

_row_to_capture(r) ==
    [camera_id |-> r.camera_id[1],
     cycle_id |-> IF r.cycle_id = None THEN 0 ELSE r.cycle_id[1],
     captured_at |-> IF r.captured_at = None THEN 0 ELSE r.captured_at[1],
     image_key |-> IF r.image_key = None THEN <<>> ELSE r.image_key[1],
     has_snow |-> _int_to_bool(r.has_snow),
     analysis_notes |-> IF r.analysis_notes = None THEN <<>> ELSE r.analysis_notes[1],
     location |-> r.location, latitude |-> r.latitude]

\* SELECT * FROM captures ORDER BY captured_at DESC LIMIT ?
SQLiteStorage_get_recent_captures(db, limit) ==
    LET at(r) == r.captured_at[1]
    IN  Map(Take(Reverse(SortBy(db.captures, at)), limit), _row_to_capture)

\* SELECT * FROM captures WHERE cycle_id = ? ORDER BY camera_id
SQLiteStorage_get_captures_by_cycle(db, cycle_id) ==
    LET mine(r) == r.cycle_id = Some(cycle_id)
        cam(r) == r.camera_id[1]
    IN  Map(SortBy(Filter(db.captures, mine), cam), _row_to_capture)

\* DELETE FROM routes; INSERT OR REPLACE each route; commit
SQLiteStorage_save_routes(db, routes) ==
    LET RECURSIVE ins(_, _)
        ins(t, i) ==
            IF i > Len(routes) THEN t
            ELSE ins(Upsert(t, routes[i].route_id,
                        [route_id |-> Some(routes[i].route_id),
                         name |-> Some(routes[i].name),
                         polyline |-> Some(routes[i].polyline),
                         distance_m |-> Some(routes[i].distance_m),
                         duration_s |-> Some(routes[i].duration_s),
                         duration_in_traffic_s |-> routes[i].duration_in_traffic_s]),
                     i + 1)
    IN  [db EXCEPT !.routes = ins(EmptyMap, 1)]

\* SELECT * FROM routes ORDER BY route_id
SQLiteStorage_get_routes(db) ==
    LET ids == SortedKeys(DOMAIN db.routes)
        row(i) == db.routes[ids[i]]
    IN  [i \in DOMAIN ids |->
            [route_id |-> row(i).route_id[1],
             name |-> OrStr(row(i).name, ""),
             polyline |-> OrStr(row(i).polyline, ""),
             distance_m |-> OrInt(row(i).distance_m, 0),
             duration_s |-> OrInt(row(i).duration_s, 0),
             duration_in_traffic_s |-> row(i).duration_in_traffic_s,
             has_closure |-> FALSE]]

SQLiteStorage_save_cycle(db, cycle) ==
    [db EXCEPT !.cycles = Upsert(@, cycle.cycle_id,
        [cycle_id |-> Some(cycle.cycle_id), started_at |-> Some(cycle.started_at),
         completed_at |-> Some(cycle.completed_at),
         cameras_processed |-> Some(cycle.cameras_processed),
         snow_count |-> Some(cycle.snow_count),
         event_count |-> Some(cycle.event_count),
         travel_time_s |-> cycle.travel_time_s,
         distance_m |-> cycle.distance_m])]

\* SELECT * FROM cycles ORDER BY started_at DESC LIMIT ?
SQLiteStorage_get_cycles(db, limit) ==
    LET ids == SortedKeys(DOMAIN db.cycles)
        rows == [i \in DOMAIN ids |-> db.cycles[ids[i]]]
        at(r) == r.started_at[1]
        cycle(r) ==
            [cycle_id |-> r.cycle_id[1], started_at |-> r.started_at[1],
             completed_at |-> OrInt(r.completed_at, 0),
             cameras_processed |-> OrInt(r.cameras_processed, 0),
             snow_count |-> OrInt(r.snow_count, 0),
             event_count |-> OrInt(r.event_count, 0),
             travel_time_s |-> r.travel_time_s,
             distance_m |-> r.distance_m]
    IN  Map(Take(Reverse(SortBy(rows, at)), limit), cycle)

\* INSERT one row per condition; commit
SQLiteStorage_save_road_conditions(db, cycle_id, conditions) ==
    LET row(c) == [cycle_id |-> Some(cycle_id), condition_id |-> Some(c.id),
                   roadway_name |-> Some(c.roadway_name),
                   road_condition |-> Some(c.road_condition)]
    IN  [db EXCEPT !.road_conditions = @ \o Map(conditions, row)]

\* SELECT * FROM road_conditions WHERE cycle_id = ?
SQLiteStorage_get_road_conditions(db, cycle_id) ==
    LET mine(r) == r.cycle_id = Some(cycle_id)
        cond(r) == [id |-> r.condition_id[1], roadway_name |-> r.roadway_name[1],
                    road_condition |-> r.road_condition[1]]
    IN  Map(Filter(db.road_conditions, mine), cond)

SQLiteStorage_save_events(db, cycle_id, events) ==
    LET row(e) == [cycle_id |-> Some(cycle_id), event_id |-> Some(e.id),
                   description |-> Some(e.description),
                   latitude |-> e.latitude,
                   is_full_closure |-> Some(IF e.is_full_closure THEN 1 ELSE 0)]
    IN  [db EXCEPT !.events = @ \o Map(events, row)]

SQLiteStorage_get_events(db, cycle_id) ==
    LET mine(r) == r.cycle_id = Some(cycle_id)
        event(r) == [id |-> r.event_id[1], description |-> r.description[1],
                     latitude |-> r.latitude,
                     is_full_closure |-> r.is_full_closure[1] # 0]
    IN  Map(Filter(db.events, mine), event)

SQLiteStorage_save_weather(db, cycle_id, stations) ==
    LET row(w) == [cycle_id |-> Some(cycle_id), station_id |-> Some(w.id),
                   station_name |-> Some(w.station_name),
                   air_temperature |-> Some(w.air_temperature)]
    IN  [db EXCEPT !.weather = @ \o Map(stations, row)]

SQLiteStorage_get_weather(db, cycle_id) ==
    LET mine(r) == r.cycle_id = Some(cycle_id)
        station(r) == [id |-> r.station_id[1], station_name |-> r.station_name[1],
                       air_temperature |-> r.air_temperature[1]]
    IN  Map(Filter(db.weather, mine), station)

\* path.write_bytes(data)
SQLiteStorage_save_image(db, key, data) ==
    [db EXCEPT !.images = Upsert(@, key, data)]

SQLiteStorage_get_image_hash(db, camera_id) ==
    IF camera_id \in DOMAIN db.image_hashes
    THEN Some(db.image_hashes[camera_id]) ELSE None

SQLiteStorage_save_image_hash(db, camera_id, hash_hex) ==
    [db EXCEPT !.image_hashes = Upsert(@, camera_id, hash_hex)]

-----------------------------------------------------------------------------
(* DynamoStorage.  The single table is a map from the primary key <<PK, SK>> *)
(* to the item; an item is a record of its attributes, each boxed as <<v>>.  *)
(* The key string "TAG#v" is the pair <<"TAG", v>>, the constant key "TAG"   *)
(* is <<"TAG">>, and the untagged key str(v) is <<"", v>>.                   *)

\* f"{tag}#{v}"
Key(tag, v) == <<tag, v>>

\* str(v) used as a key
Str(v) == <<"", v>>

\* int(s) of an untagged key
ToInt(s) == s[2]

\* key.split("#")[1]
AfterHash(k) == k[2]

\* begins_with(key, "TAG#")
begins_with(k, tag) == Len(k) = 2 /\ k[1] = tag

\* DynamoStorage on a fresh table and bucket
DynamoStorage_init == [table |-> EmptyMap, bucket |-> EmptyMap]

\* table.put_item(Item=item): the item replaces the one with its primary key
put_item(d, item) ==
    [d EXCEPT !.table = Upsert(@, <<item.PK[1], item.SK[1]>>, item)]

\* the items of the set S as a list, ascending by the key By[item], items
\* with equal keys in the order of their primary sort key
RECURSIVE Ordered(_, _)
Ordered(S, By) ==
    IF S = {} THEN <<>>
    ELSE LET m == CHOOSE x \in S : \A y \in S :
                      \/ x = y
                      \/ By[x] < By[y]
                      \/ By[x] = By[y] /\ x.SK[1][2] <= y.SK[1][2]
         IN  <<m>> \o Ordered(S \ {m}, By)

\* table.query(IndexName="GSI1", GSI1PK = pk): ascending by GSI1SK
QueryGSI1(d, pk) ==
    LET S == {d.table[k] : k \in {x \in DOMAIN d.table :
                  /\ "GSI1PK" \in DOMAIN d.table[x]
                  /\ d.table[x].GSI1PK[1] = pk}}
    IN  Ordered(S, [i \in S |-> i.GSI1SK[1][2]])

\* table.query(IndexName="GSI1", GSI1PK = pk AND begins_with(GSI1SK, prefix))
QueryGSI1Prefix(d, pk, prefix) ==
    LET S == {d.table[k] : k \in {x \in DOMAIN d.table :
                  /\ "GSI1PK" \in DOMAIN d.table[x]
                  /\ d.table[x].GSI1PK[1] = pk
                  /\ begins_with(d.table[x].GSI1SK[1], prefix)}}
    IN  Ordered(S, [i \in S |-> i.GSI1SK[1][2]])

DynamoStorage_save_camera(d, camera) ==
    put_item(d, _strip_none(
        [PK |-> Some(Key("CAMERA", camera.Id)), SK |-> Some(<<"META">>),
         GSI1PK |-> Some(<<"CAMERA">>), GSI1SK |-> Some(Str(camera.Id)),
         location |-> camera.Location,
         latitude |-> _decimal_safe(camera.Latitude),
         distance_from_route_km |-> _decimal_safe(camera.distance_from_route_km)]))

DynamoStorage_get_cameras(d) ==
    LET camera(item) ==
            [Id |-> ToInt(item.GSI1SK[1]), Location |-> Get(item, "location"),
             Latitude |-> _float_safe(Get(item, "latitude")), Views |-> <<>>,
             distance_from_route_km |->
                 _float_safe(Get(item, "distance_from_route_km"))]
    IN  Map(QueryGSI1(d, <<"CAMERA">>), camera)

DynamoStorage_save_capture(d, capture) ==
    put_item(d, _strip_none(
        [PK |-> Some(Key("CAMERA", capture.camera_id)),
         SK |-> Some(Key("CAPTURE", capture.captured_at)),
         GSI1PK |-> Some(Key("CYCLE", capture.cycle_id)),
         GSI1SK |-> Some(Key("CAMERA", capture.camera_id)),
         cycle_id |-> Some(capture.cycle_id),
         captured_at |-> Some(capture.captured_at),
         image_key |-> Some(capture.image_key),
         has_snow |-> capture.has_snow,
         analysis_notes |-> Some(capture.analysis_notes),
         location |-> capture.location,
         latitude |-> _decimal_safe(capture.latitude)]))

DynamoStorage_get_captures_by_cycle(d, cycle_id) ==
    LET capture(item) ==
            [camera_id |-> AfterHash(item.GSI1SK[1]),
             cycle_id |-> GetOr(item, "cycle_id", cycle_id),
             captured_at |-> GetOr(item, "captured_at", 0),
             image_key |-> GetOr(item, "image_key", <<>>),
             has_snow |-> Get(item, "has_snow"),
             analysis_notes |-> GetOr(item, "analysis_notes", <<>>),
             location |-> Get(item, "location"),
             latitude |-> _float_safe(Get(item, "latitude"))]
    IN  Map(QueryGSI1Prefix(d, Key("CYCLE", cycle_id), "CAMERA"), capture)

\* one put_item per route; nothing is deleted
DynamoStorage_save_routes(d, routes) ==
    LET item(route) == _strip_none(
            [PK |-> Some(Key("ROUTE", route.route_id)), SK |-> Some(<<"META">>),
             GSI1PK |-> Some(<<"ROUTE">>), GSI1SK |-> Some(Str(route.route_id)),
             route_id |-> Some(route.route_id), name |-> Some(route.name),
             polyline |-> Some(route.polyline),
             distance_m |-> Some(route.distance_m),
             duration_s |-> Some(route.duration_s),
             duration_in_traffic_s |-> route.duration_in_traffic_s])
        RECURSIVE puts(_, _)
        puts(t, i) == IF i > Len(routes) THEN t
                      ELSE puts(put_item(t, item(routes[i])), i + 1)
    IN  puts(d, 1)

DynamoStorage_get_routes(d) ==
    LET route(item) ==
            [route_id |-> GetOr(item, "route_id", 0),
             name |-> GetOr(item, "name", ""),
             polyline |-> GetOr(item, "polyline", ""),
             distance_m |-> GetOr(item, "distance_m", 0),
             duration_s |-> GetOr(item, "duration_s", 0),
             duration_in_traffic_s |-> _int_safe(Get(item, "duration_in_traffic_s")),
             has_closure |-> FALSE]
    IN  Map(QueryGSI1(d, <<"ROUTE">>), route)

DynamoStorage_save_cycle(d, cycle) ==
    put_item(d, _strip_none(
        [PK |-> Some(<<"CYCLES">>), SK |-> Some(Key("CYCLE", cycle.cycle_id)),
         GSI1PK |-> Some(Key("CYCLE", cycle.cycle_id)), GSI1SK |-> Some(<<"META">>),
         cycle_id |-> Some(cycle.cycle_id), started_at |-> Some(cycle.started_at),
         completed_at |-> Some(cycle.completed_at),
         cameras_processed |-> Some(cycle.cameras_processed),
         snow_count |-> Some(cycle.snow_count),
         event_count |-> Some(cycle.event_count),
         travel_time_s |-> cycle.travel_time_s,
         distance_m |-> cycle.distance_m]))

\* get_cycles with the query read in ascending key order (ScanIndexForward=True)
DynamoStorage_get_cycles_forward(d, limit) ==
    LET S == {d.table[k] : k \in {x \in DOMAIN d.table :
                  x[1] = <<"CYCLES">> /\ begins_with(x[2], "CYCLE")}}
        cycle(item) ==
            [cycle_id |-> GetOr(item, "cycle_id", 0),
             started_at |-> GetOr(item, "started_at", 0),
             completed_at |-> GetOr(item, "completed_at", 0),
             cameras_processed |-> GetOr(item, "cameras_processed", 0),
             snow_count |-> GetOr(item, "snow_count", 0),
             event_count |-> GetOr(item, "event_count", 0),
             travel_time_s |-> _int_safe(Get(item, "travel_time_s")),
             distance_m |-> _int_safe(Get(item, "distance_m"))]
    IN  Map(Take(Ordered(S, [i \in S |-> i.SK[1][2]]), limit), cycle)

\* query PK = "CYCLES", begins_with(SK, "CYCLE#"), ScanIndexForward=False, Limit
DynamoStorage_get_cycles(d, limit) ==
    LET S == {d.table[k] : k \in {x \in DOMAIN d.table :
                  x[1] = <<"CYCLES">> /\ begins_with(x[2], "CYCLE")}}
        cycle(item) ==
            [cycle_id |-> GetOr(item, "cycle_id", 0),
             started_at |-> GetOr(item, "started_at", 0),
             completed_at |-> GetOr(item, "completed_at", 0),
             cameras_processed |-> GetOr(item, "cameras_processed", 0),
             snow_count |-> GetOr(item, "snow_count", 0),
             event_count |-> GetOr(item, "event_count", 0),
             travel_time_s |-> _int_safe(Get(item, "travel_time_s")),
             distance_m |-> _int_safe(Get(item, "distance_m"))]
    IN  Map(Take(Reverse(Ordered(S, [i \in S |-> i.SK[1][2]])), limit), cycle)

\* return self.get_captures_by_cycle(cycles[0].cycle_id)[:limit]
DynamoStorage_get_recent_captures(d, limit) ==
    LET cycles == DynamoStorage_get_cycles(d, 1)
    IN  IF cycles = <<>> THEN <<>>
        ELSE Take(DynamoStorage_get_captures_by_cycle(d, cycles[1].cycle_id), limit)

DynamoStorage_save_road_conditions(d, cycle_id, conditions) ==
    LET item(c) == _strip_none(
            [PK |-> Some(Key("CONDITION", c.roadway_name)), SK |-> Some(Str(cycle_id)),
             GSI1PK |-> Some(Key("CYCLE", cycle_id)),
             GSI1SK |-> Some(Key("CONDITION", c.roadway_name)),
             condition_id |-> Some(c.id), roadway_name |-> Some(c.roadway_name),
             road_condition |-> Some(c.road_condition)])
        RECURSIVE puts(_, _)
        puts(t, i) == IF i > Len(conditions) THEN t
                      ELSE puts(put_item(t, item(conditions[i])), i + 1)
    IN  puts(d, 1)

DynamoStorage_get_road_conditions(d, cycle_id) ==
    LET cond(item) ==
            [id |-> GetOr(item, "condition_id", 0),
             roadway_name |-> GetOr(item, "roadway_name", 0),
             road_condition |-> GetOr(item, "road_condition", "")]
    IN  Map(QueryGSI1Prefix(d, Key("CYCLE", cycle_id), "CONDITION"), cond)

DynamoStorage_save_events(d, cycle_id, events) ==
    LET item(e) == _strip_none(
            [PK |-> Some(Key("EVENT", e.id)), SK |-> Some(<<"META">>),
             GSI1PK |-> Some(Key("CYCLE", cycle_id)),
             GSI1SK |-> Some(Key("EVENT", e.id)),
             event_id |-> Some(e.id), description |-> Some(e.description),
             latitude |-> _decimal_safe(e.latitude),
             is_full_closure |-> Some(e.is_full_closure)])
        RECURSIVE puts(_, _)
        puts(t, i) == IF i > Len(events) THEN t
                      ELSE puts(put_item(t, item(events[i])), i + 1)
    IN  puts(d, 1)

\* get_events with the query keyed on the EVENT prefix alone, whatever the cycle
DynamoStorage_get_events_unscoped(d, cycle_id) ==
    LET S == {d.table[k] : k \in {x \in DOMAIN d.table :
                  /\ "GSI1PK" \in DOMAIN d.table[x]
                  /\ begins_with(d.table[x].GSI1SK[1], "EVENT")}}
        event(item) ==
            [id |-> GetOr(item, "event_id", 0),
             description |-> GetOr(item, "description", ""),
             latitude |-> _float_safe(Get(item, "latitude")),
             is_full_closure |-> GetOr(item, "is_full_closure", FALSE)]
    IN  Map(Ordered(S, [i \in S |-> i.GSI1SK[1][2]]), event)

DynamoStorage_get_events(d, cycle_id) ==
    LET event(item) ==
            [id |-> GetOr(item, "event_id", 0),
             description |-> GetOr(item, "description", ""),
             latitude |-> _float_safe(Get(item, "latitude")),
             is_full_closure |-> GetOr(item, "is_full_closure", FALSE)]
    IN  Map(QueryGSI1Prefix(d, Key("CYCLE", cycle_id), "EVENT"), event)

DynamoStorage_save_weather(d, cycle_id, stations) ==
    LET item(w) == _strip_none(
            [PK |-> Some(Key("WEATHER", w.station_name)), SK |-> Some(Str(cycle_id)),
             GSI1PK |-> Some(Key("CYCLE", cycle_id)),
             GSI1SK |-> Some(Key("WEATHER", w.station_name)),
             station_id |-> Some(w.id), station_name |-> Some(w.station_name),
             air_temperature |-> Some(w.air_temperature)])
        RECURSIVE puts(_, _)
        puts(t, i) == IF i > Len(stations) THEN t
                      ELSE puts(put_item(t, item(stations[i])), i + 1)
    IN  puts(d, 1)

DynamoStorage_get_weather(d, cycle_id) ==
    LET station(item) ==
            [id |-> GetOr(item, "station_id", 0),
             station_name |-> GetOr(item, "station_name", 0),
             air_temperature |-> GetOr(item, "air_temperature", "")]
    IN  Map(QueryGSI1Prefix(d, Key("CYCLE", cycle_id), "WEATHER"), station)

\* s3.put_object(Key=f"images/{key}", Body=data)
DynamoStorage_save_image(d, key, data) ==
    [d EXCEPT !.bucket = Upsert(@, key, data)]

\* table.get_item(Key={"PK": f"HASH#{camera_id}", "SK": "HASH"})
DynamoStorage_get_image_hash(d, camera_id) ==
    LET k == <<Key("HASH", camera_id), <<"HASH">>>>
    IN  IF k \in DOMAIN d.table THEN Some(d.table[k].hash_hex[1]) ELSE None

\* save_image_hash with a key that leaves out the camera id
DynamoStorage_save_image_hash_shared(d, camera_id, hash_hex) ==
    put_item(d, [PK |-> Some(Key("HASH", 0)), SK |-> Some(<<"HASH">>),
                 hash_hex |-> Some(hash_hex)])

DynamoStorage_save_image_hash(d, camera_id, hash_hex) ==
    put_item(d, [PK |-> Some(Key("HASH", camera_id)), SK |-> Some(<<"HASH">>),
                 hash_hex |-> Some(hash_hex)])

-----------------------------------------------------------------------------
(* Entities (models.py), with the fields the storage code reads and writes. *)

Camera(Id, Location, Latitude, Views) ==
    [Id |-> Id, Location |-> Location, Latitude |-> Latitude, Views |-> Views,
     distance_from_route_km |-> None]

CameraView(Url) == [Url |-> Url]

CaptureRecord(camera_id, cycle_id, captured_at, image_key, has_snow, analysis_notes, location, latitude) ==
    [camera_id |-> camera_id, cycle_id |-> cycle_id, captured_at |-> captured_at,
     image_key |-> image_key, has_snow |-> has_snow,
     analysis_notes |-> analysis_notes, location |-> location,
     latitude |-> latitude]

Route(route_id, name, polyline, distance_m, duration_s, duration_in_traffic_s, has_closure) ==
    [route_id |-> route_id, name |-> name, polyline |-> polyline,
     distance_m |-> distance_m, duration_s |-> duration_s,
     duration_in_traffic_s |-> duration_in_traffic_s,
     has_closure |-> has_closure]

CycleSummary(cycle_id, started_at) ==
    [cycle_id |-> cycle_id, started_at |-> started_at, completed_at |-> 0,
     cameras_processed |-> 0, snow_count |-> 0, event_count |-> 0,
     travel_time_s |-> None, distance_m |-> None]

RoadCondition(id, roadway_name, road_condition) ==
    [id |-> id, roadway_name |-> roadway_name, road_condition |-> road_condition]

Event(id, description, latitude, is_full_closure) ==
    [id |-> id, description |-> description, latitude |-> latitude,
     is_full_closure |-> is_full_closure]

WeatherStation(id, station_name, air_temperature) ==
    [id |-> id, station_name |-> station_name, air_temperature |-> air_temperature]

-----------------------------------------------------------------------------
(* The storage harness: a caller issues Storage calls, and every call is     *)
(* applied to a SQLiteStorage and to a DynamoStorage that both start empty.  *)

\* most storage calls of one harness run
MaxOps == 3

StoreCycleIds == {1, 2}

StoreCameras ==
    {Camera(1, Some("Wolf Creek Pass Summit"), Some(40),
            <<CameraView(Some("http://example.com/cam1.jpg"))>>),
     Camera(1, Some("Updated Location"), None, <<>>),
     Camera(2, None, None, <<>>)}

StoreCaptures ==
    {CaptureRecord(1, 1, 1, <<"cam", 1, 1>>, Some(TRUE), <<"Heavy snow">>,
                   Some("Wolf Creek Pass Summit"), Some(40)),
     CaptureRecord(1, 2, 1, <<"cam", 1, 2>>, Some(FALSE), <<>>, None, None),
     CaptureRecord(1, 2, 3, <<"cam", 1, 2>>, None, <<"Heavy snow", "[cached]">>,
                   None, None),
     CaptureRecord(2, 1, 2, <<>>, None, <<>>, None, Some(38))}

RouteA == Route(1, "Parley's / Wolf Creek", "poly-a", 145000, 7200, None, FALSE)

RouteAStub == Route(1, "Parley's / Wolf Creek", "", 0, 0, None, FALSE)

RouteB == Route(2, "Provo Canyon / Wolf Creek", "poly-b", 160000, 8000, Some(8100), TRUE)

StoreRouteBatches == {<<RouteA>>, <<RouteB>>, <<RouteA, RouteB>>, <<RouteAStub>>}

StoreCycles ==
    {CycleSummary(1, 1),
     [CycleSummary(1, 1) EXCEPT !.completed_at = 2, !.cameras_processed = 3,
                                !.event_count = 2, !.travel_time_s = Some(7200)],
     CycleSummary(2, 2)}

StoreConditionBatches ==
    {<<RoadCondition(1, 35, "Snow Packed")>>,
     <<RoadCondition(1, 35, "Snow Packed"), RoadCondition(2, 35, "Dry")>>,
     <<RoadCondition(3, 40, "Dry")>>}

StoreEventBatches ==
    {<<Event(1001, "Road work ahead", Some(40), FALSE)>>,
     <<Event(1001, "Road closed", None, TRUE), Event(1002, "Accident", Some(41), TRUE)>>,
     <<Event(1002, "Accident", Some(41), TRUE)>>}

StoreWeatherBatches ==
    {<<WeatherStation(1, 7, "28")>>,
     <<WeatherStation(1, 7, "28"), WeatherStation(2, 7, "32")>>}

StoreHashes == {<<1, "h1">>, <<1, "h2">>, <<2, "h1">>}

\* the harness log: what was saved under which cycle id, per kind; the number
\* of save calls and the first batch per (kind, cycle id); the last route
\* batch; the first call of the run; the camera last saved per Id, the
\* hash last saved per camera id and the summary last saved per cycle id
StoreHist0 ==
    [saved |-> {}, calls |-> EmptyMap, routes |-> None, first |-> None,
     cameras |-> EmptyMap, hashes |-> EmptyMap, cycles |-> EmptyMap]

Logged(h, kind, cycle_id, batch) ==
    [h EXCEPT
       !.saved = @ \cup {<<kind, cycle_id, batch[i]>> : i \in DOMAIN batch},
       !.calls = Upsert(@, <<kind, cycle_id>>,
                    IF <<kind, cycle_id>> \in DOMAIN @
                    THEN [n |-> @[<<kind, cycle_id>>].n + 1,
                          batch |-> @[<<kind, cycle_id>>].batch]
                    ELSE [n |-> 1, batch |-> batch]),
       !.first = IF ops = 0 /\ Len(batch) = 1
                 THEN Some([kind |-> kind, cycle_id |-> cycle_id, entity |-> batch[1]])
                 ELSE @]

InitStore ==
    /\ sq = SQLiteStorage_init
    /\ dy = DynamoStorage_init
    /\ backend = "both"
    /\ clock = 0
    /\ pc = "harness"
    /\ cyc = None
    /\ hist = StoreHist0
    /\ ops = 0
    /\ env = None

StoreFrame ==
    ops < MaxOps /\ ops' = ops + 1 /\ UNCHANGED <<backend, clock, pc, cyc, env>>

StoreSaveCamera ==
    \E camera \in StoreCameras :
        /\ StoreFrame
        /\ sq' = SQLiteStorage_save_camera(sq, camera)
        /\ dy' = DynamoStorage_save_camera(dy, camera)
        /\ hist' = [Logged(hist, "camera", 0, <<camera>>) EXCEPT
                        !.cameras = Upsert(@, camera.Id, camera)]

StoreSaveCapture ==
    \E capture \in StoreCaptures :
        /\ StoreFrame
        /\ sq' = SQLiteStorage_save_capture(sq, capture)
        /\ dy' = DynamoStorage_save_capture(dy, capture)
        /\ hist' = Logged(hist, "capture", capture.cycle_id, <<capture>>)

StoreSaveRoutes ==
    \E routes \in StoreRouteBatches :
        /\ StoreFrame
        /\ sq' = SQLiteStorage_save_routes(sq, routes)
        /\ dy' = DynamoStorage_save_routes(dy, routes)
        /\ hist' = [Logged(hist, "route", 0, routes) EXCEPT !.routes = Some(routes)]

StoreSaveCycle ==
    \E cycle \in StoreCycles :
        /\ StoreFrame
        /\ sq' = SQLiteStorage_save_cycle(sq, cycle)
        /\ dy' = DynamoStorage_save_cycle(dy, cycle)
        /\ hist' = [Logged(hist, "cycle", 0, <<cycle>>) EXCEPT
                        !.cycles = Upsert(@, cycle.cycle_id, cycle)]

StoreSaveRoadConditions ==
    \E cycle_id \in StoreCycleIds, conditions \in StoreConditionBatches :
        /\ StoreFrame
        /\ sq' = SQLiteStorage_save_road_conditions(sq, cycle_id, conditions)
        /\ dy' = DynamoStorage_save_road_conditions(dy, cycle_id, conditions)
        /\ hist' = Logged(hist, "condition", cycle_id, conditions)

StoreSaveEvents ==
    \E cycle_id \in StoreCycleIds, events \in StoreEventBatches :
        /\ StoreFrame
        /\ sq' = SQLiteStorage_save_events(sq, cycle_id, events)
        /\ dy' = DynamoStorage_save_events(dy, cycle_id, events)
        /\ hist' = Logged(hist, "event", cycle_id, events)

StoreSaveWeather ==
    \E cycle_id \in StoreCycleIds, stations \in StoreWeatherBatches :
        /\ StoreFrame
        /\ sq' = SQLiteStorage_save_weather(sq, cycle_id, stations)
        /\ dy' = DynamoStorage_save_weather(dy, cycle_id, stations)
        /\ hist' = Logged(hist, "weather", cycle_id, stations)

StoreSaveImage ==
    \E key \in {<<"cam", 1, 1>>}, data \in {"jpeg-a", "jpeg-b"} :
        /\ StoreFrame
        /\ sq' = SQLiteStorage_save_image(sq, key, data)
        /\ dy' = DynamoStorage_save_image(dy, key, data)
        /\ hist' = hist

StoreSaveImageHash ==
    \E h \in StoreHashes :
        /\ StoreFrame
        /\ sq' = SQLiteStorage_save_image_hash(sq, h[1], h[2])
        /\ dy' = DynamoStorage_save_image_hash(dy, h[1], h[2])
        /\ hist' = [hist EXCEPT !.hashes = Upsert(@, h[1], h[2])]

NextStore ==
    \/ StoreSaveCamera
    \/ StoreSaveCapture
    \/ StoreSaveRoutes
    \/ StoreSaveCycle
    \/ StoreSaveRoadConditions
    \/ StoreSaveEvents
    \/ StoreSaveWeather
    \/ StoreSaveImage
    \/ StoreSaveImageHash

SpecStore == InitStore /\ [][NextStore]_vars

-----------------------------------------------------------------------------
(* Properties of the storage contract, over the harness. *)

\* get_cycles(limit: int = 50)
CyclesLimit == 50

\* storage.get_recent_captures(limit=100) in run_capture_cycle
RecentLimit == 100

Count(s, e) == Cardinality({i \in DOMAIN s : s[i] = e})

\* the lists a and b hold the same entities the same number of times
SameBag(a, b) == \A e \in Range(a) \cup Range(b) : Count(a, e) = Count(b, e)

\* the entities logged as saved under cycle_id, of one kind
SavedUnder(kind, cycle_id) ==
    {x[3] : x \in {y \in hist.saved : y[1] = kind /\ y[2] = cycle_id}}

\* C3 (cycle isolation): on both backends, whatever get_road_conditions(c),
\* get_events(c), get_weather(c) and get_captures_by_cycle(c) return was
\* saved under cycle id c; nothing saved under another cycle id only comes back.
C3_CycleIsolation ==
    pc = "harness" =>
    \A c \in StoreCycleIds :
        /\ Range(SQLiteStorage_get_road_conditions(sq, c)) \subseteq SavedUnder("condition", c)
        /\ Range(DynamoStorage_get_road_conditions(dy, c)) \subseteq SavedUnder("condition", c)
        /\ Range(SQLiteStorage_get_events(sq, c)) \subseteq SavedUnder("event", c)
        /\ Range(DynamoStorage_get_events(dy, c)) \subseteq SavedUnder("event", c)
        /\ Range(SQLiteStorage_get_weather(sq, c)) \subseteq SavedUnder("weather", c)
        /\ Range(DynamoStorage_get_weather(dy, c)) \subseteq SavedUnder("weather", c)
        /\ Range(SQLiteStorage_get_captures_by_cycle(sq, c)) \subseteq SavedUnder("capture", c)
        /\ Range(DynamoStorage_get_captures_by_cycle(dy, c)) \subseteq SavedUnder("capture", c)

\* C3 witness: events were saved under both cycle ids, cycle 2 got an event
\* that cycle 1 never got, and both backends return events for both cycles.
C3_Witness ==
    /\ pc = "harness"
    /\ SavedUnder("event", 2) \ SavedUnder("event", 1) # {}
    /\ SQLiteStorage_get_events(sq, 1) # <<>>
    /\ DynamoStorage_get_events(dy, 1) # <<>>
    /\ DynamoStorage_get_events(dy, 2) # <<>>

\* C4 (batch completeness), as claimed: once save_X(c, B) has been called
\* once for a cycle id c, get_X(c) returns exactly the entities of B on both
\* backends, whatever was saved under other cycle ids afterwards.
C4_BatchCompleteness ==
    pc = "harness" =>
    \A c \in StoreCycleIds :
        /\ (<<"condition", c>> \in DOMAIN hist.calls /\ hist.calls[<<"condition", c>>].n = 1)
            => /\ SameBag(SQLiteStorage_get_road_conditions(sq, c), hist.calls[<<"condition", c>>].batch)
               /\ SameBag(DynamoStorage_get_road_conditions(dy, c), hist.calls[<<"condition", c>>].batch)
        /\ (<<"event", c>> \in DOMAIN hist.calls /\ hist.calls[<<"event", c>>].n = 1)
            => /\ SameBag(SQLiteStorage_get_events(sq, c), hist.calls[<<"event", c>>].batch)
               /\ SameBag(DynamoStorage_get_events(dy, c), hist.calls[<<"event", c>>].batch)
        /\ (<<"weather", c>> \in DOMAIN hist.calls /\ hist.calls[<<"weather", c>>].n = 1)
            => /\ SameBag(SQLiteStorage_get_weather(sq, c), hist.calls[<<"weather", c>>].batch)
               /\ SameBag(DynamoStorage_get_weather(dy, c), hist.calls[<<"weather", c>>].batch)

RouteIds(routes) == {routes[i].route_id : i \in DOMAIN routes}

\* C5 (route replacement), as claimed: after save_routes(R), get_routes
\* returns the routes of R and no others, one per route_id, on both backends.
C5_RouteFullReplace ==
    (pc = "harness" /\ hist.routes # None) =>
        /\ RouteIds(SQLiteStorage_get_routes(sq)) = RouteIds(hist.routes[1])
        /\ Len(SQLiteStorage_get_routes(sq)) = Cardinality(RouteIds(hist.routes[1]))
        /\ RouteIds(DynamoStorage_get_routes(dy)) = RouteIds(hist.routes[1])
        /\ Len(DynamoStorage_get_routes(dy)) = Cardinality(RouteIds(hist.routes[1]))

\* what each backend reads back for the kind and cycle id of a saved entity
ReadBackSQLite(kind, cycle_id) ==
    CASE kind = "camera" -> SQLiteStorage_get_cameras(sq)
      [] kind = "capture" -> SQLiteStorage_get_captures_by_cycle(sq, cycle_id)
      [] kind = "route" -> SQLiteStorage_get_routes(sq)
      [] kind = "cycle" -> SQLiteStorage_get_cycles(sq, CyclesLimit)
      [] kind = "condition" -> SQLiteStorage_get_road_conditions(sq, cycle_id)
      [] kind = "event" -> SQLiteStorage_get_events(sq, cycle_id)
      [] kind = "weather" -> SQLiteStorage_get_weather(sq, cycle_id)

ReadBackDynamo(kind, cycle_id) ==
    CASE kind = "camera" -> DynamoStorage_get_cameras(dy)
      [] kind = "capture" -> DynamoStorage_get_captures_by_cycle(dy, cycle_id)
      [] kind = "route" -> DynamoStorage_get_routes(dy)
      [] kind = "cycle" -> DynamoStorage_get_cycles(dy, CyclesLimit)
      [] kind = "condition" -> DynamoStorage_get_road_conditions(dy, cycle_id)
      [] kind = "event" -> DynamoStorage_get_events(dy, cycle_id)
      [] kind = "weather" -> DynamoStorage_get_weather(dy, cycle_id)

\* C6 (round trip), as claimed: an entity saved into an empty store reads
\* back equal on all fields, absent optionals as absent, on both backends.
C6_RoundTrip ==
    (pc = "harness" /\ ops = 1 /\ hist.first # None) =>
        /\ ReadBackSQLite(hist.first[1].kind, hist.first[1].cycle_id) = <<hist.first[1].entity>>
        /\ ReadBackDynamo(hist.first[1].kind, hist.first[1].cycle_id) = <<hist.first[1].entity>>

\* C7 (backend equivalence), as claimed: after the same calls, every get
\* returns the same set of entities from SQLiteStorage and from DynamoStorage.
C7_BackendEquivalence ==
    pc = "harness" =>
        /\ Range(SQLiteStorage_get_cameras(sq)) = Range(DynamoStorage_get_cameras(dy))
        /\ Range(SQLiteStorage_get_routes(sq)) = Range(DynamoStorage_get_routes(dy))
        /\ Range(SQLiteStorage_get_cycles(sq, CyclesLimit)) = Range(DynamoStorage_get_cycles(dy, CyclesLimit))
        /\ Range(SQLiteStorage_get_recent_captures(sq, RecentLimit))
               = Range(DynamoStorage_get_recent_captures(dy, RecentLimit))
        /\ \A c \in StoreCycleIds :
            /\ Range(SQLiteStorage_get_captures_by_cycle(sq, c))
                   = Range(DynamoStorage_get_captures_by_cycle(dy, c))
            /\ Range(SQLiteStorage_get_road_conditions(sq, c))
                   = Range(DynamoStorage_get_road_conditions(dy, c))
            /\ Range(SQLiteStorage_get_events(sq, c)) = Range(DynamoStorage_get_events(dy, c))
            /\ Range(SQLiteStorage_get_weather(sq, c)) = Range(DynamoStorage_get_weather(dy, c))
        /\ \A camera_id \in {1, 2} :
            SQLiteStorage_get_image_hash(sq, camera_id) = DynamoStorage_get_image_hash(dy, camera_id)

-----------------------------------------------------------------------------
(* The capture cycle: run_capture_cycle (traffic_cam_monitor.py), one action *)
(* per step, against the backend that settings.storage_backend selects.      *)

\* most capture cycles of one run
MaxCycles == 3

\* most camera iterations (image download attempts) of one run
MaxDownloads == 4

\* settings.ROUTES: the configured routes and their hardcoded camera ids;
\* the routes share cameras
ROUTES ==
    <<[route_id |-> 1, name |-> "Parley's / Wolf Creek", camera_ids |-> <<1, 2>>],
      [route_id |-> 2, name |-> "Provo Canyon / Wolf Creek", camera_ids |-> <<2, 1>>]>>

\* [cid for route_cfg in ROUTES for cid in route_cfg.camera_ids]
RECURSIVE Flatten(_)
Flatten(ss) == IF ss = <<>> THEN <<>> ELSE Head(ss) \o Flatten(Tail(ss))

AllConfiguredCameraIds == Flatten([i \in DOMAIN ROUTES |-> ROUTES[i].camera_ids])

RECURSIVE Dedup(_, _)
Dedup(ids, seen) ==
    IF ids = <<>> THEN <<>>
    ELSE IF Head(ids) \in seen THEN Dedup(Tail(ids), seen)
    ELSE <<Head(ids)>> \o Dedup(Tail(ids), seen \cup {Head(ids)})

\* ids of all routes concatenated, repeats kept
get_all_camera_ids_repeated == AllConfiguredCameraIds

\* Union of all camera IDs across all routes, deduplicated, order preserved
get_all_camera_ids == Dedup(AllConfiguredCameraIds, {})

ImageUrl == Some("http://udot/cam.jpg")

\* the feeds fetch_all_cameras can return in a run: every configured camera
\* and one that is not configured; one configured camera only, listed twice
\* with the earlier entry lacking its view; one camera whose view has no
\* Url; nothing (the fetch failed)
Feeds ==
    {<<Camera(3, Some("Daniels Summit"), None, <<CameraView(ImageUrl)>>),
       Camera(1, Some("Wolf Creek Pass Summit"), Some(40), <<CameraView(ImageUrl)>>),
       Camera(2, None, None, <<CameraView(ImageUrl)>>)>>,
     <<Camera(2, None, None, <<>>),
       Camera(2, Some("Tabiona"), Some(41), <<CameraView(ImageUrl)>>)>>,
     <<Camera(1, Some("Wolf Creek Pass Summit"), Some(40), <<CameraView(None)>>)>>,
     <<>>}

Categories == {"conditions", "events", "weather", "passes", "plows"}

\* the enrichment fetches that raise in a run
Outages == {{}, Categories}

\* the bytes a camera image download can return
ImageBytes == {"jpeg-a", "jpeg-b"}

\* hashlib.sha256(image_data).hexdigest()
Sha256(data) == <<"sha256", data>>

\* analyze_image_bytes: the parsed answer of the vision API for an image, or,
\* for an image on which the API errors (anthropic.APIError), a result that
\* carries the error in its notes
analyze_image_bytes(data) ==
    IF data = "jpeg-a"
    THEN [has_snow |-> Some(TRUE), notes |-> <<"Heavy snow on road">>]
    ELSE [has_snow |-> None, notes |-> <<"Analysis failed">>]

\* what get_routes() returns when it returns: one Route per configured route,
\* a stub without polyline for a route whose fetch failed
FetchedRoutes == {<<RouteA, RouteB>>, <<RouteAStub, RouteB>>}

FetchedConditions == <<RoadCondition(1, 35, "Snow Packed"), RoadCondition(2, 40, "Dry")>>

FetchedEvents == <<Event(1001, "Road work ahead", Some(40), FALSE)>>

FetchedWeather == <<WeatherStation(1, 7, "28")>>

\* create_storage(settings): the backend the run works on
storage == IF backend = "dynamo" THEN dy ELSE sq

\* the backend's store becomes st
Stored(st) ==
    IF backend = "dynamo" THEN dy' = st /\ sq' = sq ELSE sq' = st /\ dy' = dy

storage_save_camera(st, camera) ==
    IF backend = "dynamo" THEN DynamoStorage_save_camera(st, camera)
    ELSE SQLiteStorage_save_camera(st, camera)

storage_save_capture(st, capture) ==
    IF backend = "dynamo" THEN DynamoStorage_save_capture(st, capture)
    ELSE SQLiteStorage_save_capture(st, capture)

storage_get_recent_captures(st, limit) ==
    IF backend = "dynamo" THEN DynamoStorage_get_recent_captures(st, limit)
    ELSE SQLiteStorage_get_recent_captures(st, limit)

storage_get_captures_by_cycle(st, cycle_id) ==
    IF backend = "dynamo" THEN DynamoStorage_get_captures_by_cycle(st, cycle_id)
    ELSE SQLiteStorage_get_captures_by_cycle(st, cycle_id)

storage_save_routes(st, routes) ==
    IF backend = "dynamo" THEN DynamoStorage_save_routes(st, routes)
    ELSE SQLiteStorage_save_routes(st, routes)

storage_get_routes(st) ==
    IF backend = "dynamo" THEN DynamoStorage_get_routes(st)
    ELSE SQLiteStorage_get_routes(st)

storage_save_cycle(st, cycle) ==
    IF backend = "dynamo" THEN DynamoStorage_save_cycle(st, cycle)
    ELSE SQLiteStorage_save_cycle(st, cycle)

storage_get_cycles(st, limit) ==
    IF backend = "dynamo" THEN DynamoStorage_get_cycles(st, limit)
    ELSE SQLiteStorage_get_cycles(st, limit)

storage_save_road_conditions(st, cycle_id, conditions) ==
    IF backend = "dynamo" THEN DynamoStorage_save_road_conditions(st, cycle_id, conditions)
    ELSE SQLiteStorage_save_road_conditions(st, cycle_id, conditions)

storage_save_events(st, cycle_id, events) ==
    IF backend = "dynamo" THEN DynamoStorage_save_events(st, cycle_id, events)
    ELSE SQLiteStorage_save_events(st, cycle_id, events)

storage_save_weather(st, cycle_id, stations) ==
    IF backend = "dynamo" THEN DynamoStorage_save_weather(st, cycle_id, stations)
    ELSE SQLiteStorage_save_weather(st, cycle_id, stations)

storage_save_image(st, key, data) ==
    IF backend = "dynamo" THEN DynamoStorage_save_image(st, key, data)
    ELSE SQLiteStorage_save_image(st, key, data)

storage_get_image_hash(st, camera_id) ==
    IF backend = "dynamo" THEN DynamoStorage_get_image_hash(st, camera_id)
    ELSE SQLiteStorage_get_image_hash(st, camera_id)

storage_save_image_hash(st, camera_id, hash_hex) ==
    IF backend = "dynamo" THEN DynamoStorage_save_image_hash(st, camera_id, hash_hex)
    ELSE SQLiteStorage_save_image_hash(st, camera_id, hash_hex)

\* the locals of run_capture_cycle before it starts; log lists the calls the
\* cycle has made (ghost), raised the enrichment categories that raised
NoCycle ==
    [cycle_id |-> 0, routes |-> <<>>, primary_route |-> None, cameras |-> <<>>,
     i |-> 0, image_data |-> "", image_hash |-> <<>>, image_key |-> <<>>,
     snow_count |-> 0, skipped_count |-> 0, events |-> <<>>, raised |-> {},
     fallback |-> FALSE, log |-> <<>>]

\* the observation log of a run: the last cycle that ended, and per camera
\* the hash and image key of the last capture that analysed an image
Hist0 ==
    [last |-> [cycle_id |-> 0, outcome |-> "none", at |-> "idle", raised |-> {},
               log |-> <<>>],
     origin |-> EmptyMap, downloads |-> 0, faults |-> 0]

\* camera_lookup = {c.Id: c for c in all_cameras}: the last entry of an id wins
camera_lookup(all_cameras) ==
    [id \in {all_cameras[k].Id : k \in DOMAIN all_cameras} |->
        all_cameras[CHOOSE k \in DOMAIN all_cameras :
            /\ all_cameras[k].Id = id
            /\ \A m \in DOMAIN all_cameras : all_cameras[m].Id = id => m <= k]]

\* the match made the other way round: the fetched cameras whose id is configured
MatchCamerasFromFeed(camera_ids, all_cameras) ==
    LET configured(c) == c.Id \in Range(camera_ids)
    IN  Filter(all_cameras, configured)

\* [camera_lookup[cid] for cid in camera_ids if cid in camera_lookup]
MatchCameras(camera_ids, all_cameras) ==
    LET known(cid) == cid \in DOMAIN camera_lookup(all_cameras)
        pick(cid) == camera_lookup(all_cameras)[cid]
    IN  Map(Filter(camera_ids, known), pick)

Init ==
    /\ sq = SQLiteStorage_init
    /\ dy = DynamoStorage_init
    /\ backend \in {"sqlite", "dynamo"}
    /\ clock = 0
    /\ pc = "idle"
    /\ cyc = NoCycle
    /\ hist = Hist0
    /\ ops = 0
    /\ env \in [feed : Feeds, down : Outages]

\* the position after the loop body for camera i: the next camera, or step 5
AfterCamera == IF cyc.i < Len(cyc.cameras) THEN "download" ELSE "conditions"

\* cycle_id = datetime.now(); cycle = CycleSummary(cycle_id, started_at=cycle_id)
StartCycle ==
    /\ pc = "idle"
    /\ ops < MaxCycles
    /\ hist.downloads + Len(MatchCameras(get_all_camera_ids, env.feed)) <= MaxDownloads
    /\ clock' = clock + 1
    /\ cyc' = [NoCycle EXCEPT !.cycle_id = clock + 1]
    /\ pc' = "routes"
    /\ ops' = ops + 1
    /\ UNCHANGED <<sq, dy, backend, hist, env>>

\* routes = get_routes(); storage.save_routes(routes)
RouteRefresh ==
    /\ pc = "routes"
    /\ \E routes \in FetchedRoutes :
        /\ Stored(storage_save_routes(storage, routes))
        /\ cyc' = [cyc EXCEPT !.routes = routes,
                              !.primary_route = IF routes # <<>> THEN Some(routes[1]) ELSE None,
                              !.log = Append(@, <<"save_routes", 0>>)]
    /\ pc' = "cameras"
    /\ UNCHANGED <<backend, clock, hist, ops, env>>

\* the routes the except branch leaves in `routes`
RouteFallback(st) == storage_get_routes(st)

\* get_routes() raises: routes = storage.get_routes()
RouteRefreshFallback ==
    /\ pc = "routes"
    /\ LET routes == RouteFallback(storage)
       IN  cyc' = [cyc EXCEPT !.routes = routes,
                              !.primary_route = IF routes # <<>> THEN Some(routes[1]) ELSE None,
                              !.fallback = TRUE,
                              !.log = Append(@, <<"get_routes", 0>>)]
    /\ pc' = "cameras"
    /\ UNCHANGED <<sq, dy, backend, clock, hist, ops, env>>

\* camera_ids = get_all_camera_ids(); all_cameras = fetch_all_cameras(...)
CameraMatch ==
    /\ pc = "cameras"
    /\ cyc' = [cyc EXCEPT !.cameras = MatchCameras(get_all_camera_ids, env.feed), !.i = 1]
    /\ pc' = IF MatchCameras(get_all_camera_ids, env.feed) # <<>> THEN "download" ELSE "conditions"
    /\ UNCHANGED <<sq, dy, backend, clock, hist, ops, env>>

\* the bytes _download_image can return for a camera (None: no view, no Url,
\* or the request failed)
Downloadable(camera) ==
    IF camera.Views = <<>> THEN {None}
    ELSE IF camera.Views[1].Url = None THEN {None}
    ELSE {None} \cup {Some(b) : b \in ImageBytes}

\* the loop body without its `continue`: a failed download falls through to
\* the hash comparison and the saves with empty bytes
DownloadNoContinue ==
    /\ pc = "download"
    /\ LET camera == cyc.cameras[cyc.i]
           st == storage_save_camera(storage, camera)
       IN  /\ Stored(st)
           /\ \E image_data \in Downloadable(camera) :
                LET data == IF image_data = None THEN "" ELSE image_data[1]
                    failed == IF image_data = None
                              THEN <<(<<"download_failed", camera.Id>>)>> ELSE <<>>
                IN  /\ pc' = IF storage_get_image_hash(st, camera.Id) = Some(Sha256(data))
                              THEN "skip" ELSE "save_image"
                    /\ cyc' = [cyc EXCEPT !.image_data = data,
                                  !.image_hash = Sha256(data),
                                  !.log = Append(@, <<"save_camera", camera.Id>>) \o failed]
    /\ hist' = [hist EXCEPT !.downloads = @ + 1]
    /\ UNCHANGED <<backend, clock, ops, env>>

\* storage.save_camera(camera); image_data = _download_image(camera);
\* if not image_data: continue; the hash is compared with the stored one
Download ==
    /\ pc = "download"
    /\ LET camera == cyc.cameras[cyc.i]
           st == storage_save_camera(storage, camera)
       IN  /\ Stored(st)
           /\ \E image_data \in Downloadable(camera) :
                IF image_data = None
                THEN /\ pc' = AfterCamera
                     /\ cyc' = [cyc EXCEPT !.i = @ + 1,
                                  !.log = Append(@, <<"save_camera", camera.Id>>)
                                          \o <<(<<"download_failed", camera.Id>>)>>]
                ELSE /\ pc' = IF storage_get_image_hash(st, camera.Id) = Some(Sha256(image_data[1]))
                              THEN "skip" ELSE "save_image"
                     /\ cyc' = [cyc EXCEPT !.image_data = image_data[1],
                                  !.image_hash = Sha256(image_data[1]),
                                  !.log = Append(@, <<"save_camera", camera.Id>>)]
    /\ hist' = [hist EXCEPT !.downloads = @ + 1]
    /\ UNCHANGED <<backend, clock, ops, env>>

\* next((c for c in prev_captures if c.camera_id == camera.Id), None)
FirstOf(prev_captures, camera_id) ==
    LET mine(c) == c.camera_id = camera_id
    IN  IF Filter(prev_captures, mine) = <<>> THEN None
        ELSE Some(Head(Filter(prev_captures, mine)))

\* the unchanged-image path made to analyse the bytes after all
SkipAnalysisReanalyses ==
    /\ pc = "skip"
    /\ LET camera == cyc.cameras[cyc.i]
           analysis == analyze_image_bytes(cyc.image_data)
           capture == CaptureRecord(camera.Id, cyc.cycle_id, clock + 1, <<>>,
                          analysis.has_snow, analysis.notes,
                          camera.Location, camera.Latitude)
       IN  /\ Stored(storage_save_capture(storage, capture))
           /\ cyc' = [cyc EXCEPT !.i = @ + 1,
                        !.snow_count = IF capture.has_snow = Some(TRUE) THEN @ + 1 ELSE @,
                        !.log = @ \o <<(<<"analyze", camera.Id>>), <<"skip", camera.Id>> >>]
           /\ hist' = [hist EXCEPT !.origin = Upsert(@, camera.Id,
                           [hash |-> cyc.image_hash, image_key |-> <<>>])]
    /\ clock' = clock + 1
    /\ pc' = AfterCamera
    /\ UNCHANGED <<backend, ops, env>>

\* the unchanged-image path made to store the downloaded bytes once more
SkipAnalysisSavesImage ==
    /\ pc = "skip"
    /\ LET camera == cyc.cameras[cyc.i]
           prev == FirstOf(storage_get_recent_captures(storage, RecentLimit), camera.Id)
           capture == CaptureRecord(camera.Id, cyc.cycle_id, clock + 1,
                          IF prev # None THEN prev[1].image_key ELSE <<>>,
                          IF prev # None THEN prev[1].has_snow ELSE None,
                          (IF prev # None THEN prev[1].analysis_notes ELSE <<>>) \o <<"[cached]">>,
                          camera.Location, camera.Latitude)
       IN  /\ Stored(storage_save_capture(
                      storage_save_image(storage, <<"cam", camera.Id, clock + 1>>, cyc.image_data),
                      capture))
           /\ cyc' = [cyc EXCEPT !.i = @ + 1, !.skipped_count = @ + 1,
                        !.snow_count = IF capture.has_snow = Some(TRUE) THEN @ + 1 ELSE @,
                        !.log = Append(@, <<"skip", camera.Id>>)]
    /\ clock' = clock + 1
    /\ pc' = AfterCamera
    /\ UNCHANGED <<backend, hist, ops, env>>

\* Image unchanged -- reuse previous analysis
SkipAnalysis ==
    /\ pc = "skip"
    /\ LET camera == cyc.cameras[cyc.i]
           prev == FirstOf(storage_get_recent_captures(storage, RecentLimit), camera.Id)
           capture == CaptureRecord(camera.Id, cyc.cycle_id, clock + 1,
                          IF prev # None THEN prev[1].image_key ELSE <<>>,
                          IF prev # None THEN prev[1].has_snow ELSE None,
                          (IF prev # None THEN prev[1].analysis_notes ELSE <<>>) \o <<"[cached]">>,
                          camera.Location, camera.Latitude)
       IN  /\ Stored(storage_save_capture(storage, capture))
           /\ cyc' = [cyc EXCEPT !.i = @ + 1, !.skipped_count = @ + 1,
                        !.snow_count = IF capture.has_snow = Some(TRUE) THEN @ + 1 ELSE @,
                        !.log = Append(@, <<"skip", camera.Id>>)]
    /\ clock' = clock + 1
    /\ pc' = AfterCamera
    /\ UNCHANGED <<backend, hist, ops, env>>

\* the no-skip path without its save_image_hash call
SaveImageNoHash ==
    /\ pc = "save_image"
    /\ LET camera == cyc.cameras[cyc.i]
           image_key == <<"cam", camera.Id, clock + 1>>
       IN  /\ Stored(storage_save_image(storage, image_key, cyc.image_data))
           /\ cyc' = [cyc EXCEPT !.image_key = image_key,
                        !.log = Append(@, <<"save_image", camera.Id>>)]
    /\ clock' = clock + 1
    /\ pc' = "analyze"
    /\ UNCHANGED <<backend, hist, ops, env>>

\* image_key = f"cam_{camera.Id}_{timestamp}.jpg"; storage.save_image(...)
SaveImage ==
    /\ pc = "save_image"
    /\ LET camera == cyc.cameras[cyc.i]
           image_key == <<"cam", camera.Id, clock + 1>>
       IN  /\ Stored(storage_save_image(storage, image_key, cyc.image_data))
           /\ cyc' = [cyc EXCEPT !.image_key = image_key,
                        !.log = Append(@, <<"save_image", camera.Id>>)]
    /\ clock' = clock + 1
    /\ pc' = "save_image_hash"
    /\ UNCHANGED <<backend, hist, ops, env>>

\* save_image_hash called with the id of the first camera of the cycle
SaveImageHashFirstCamera ==
    /\ pc = "save_image_hash"
    /\ Stored(storage_save_image_hash(storage, cyc.cameras[1].Id, cyc.image_hash))
    /\ cyc' = [cyc EXCEPT !.log = Append(@, <<"save_image_hash", cyc.cameras[cyc.i].Id>>)]
    /\ pc' = "analyze"
    /\ UNCHANGED <<backend, clock, hist, ops, env>>

\* storage.save_image_hash(camera.Id, image_hash)
SaveImageHash ==
    /\ pc = "save_image_hash"
    /\ Stored(storage_save_image_hash(storage, cyc.cameras[cyc.i].Id, cyc.image_hash))
    /\ cyc' = [cyc EXCEPT !.log = Append(@, <<"save_image_hash", cyc.cameras[cyc.i].Id>>)]
    /\ pc' = "analyze"
    /\ UNCHANGED <<backend, clock, hist, ops, env>>

\* analyze_image_bytes without its except branch: the API error of the
\* vision call leaves run_capture_cycle
AnalyzeAndSaveUncaught ==
    /\ pc = "analyze"
    /\ LET analysis == analyze_image_bytes(cyc.image_data)
           camera == cyc.cameras[cyc.i]
           capture == CaptureRecord(camera.Id, cyc.cycle_id, clock + 1, cyc.image_key,
                          analysis.has_snow, analysis.notes,
                          camera.Location, camera.Latitude)
       IN  IF analysis.has_snow = None
           THEN /\ hist' = [hist EXCEPT !.last =
                               [cycle_id |-> cyc.cycle_id, outcome |-> "raised", at |-> pc,
                                raised |-> cyc.raised, log |-> cyc.log]]
                /\ cyc' = NoCycle
                /\ pc' = "idle"
                /\ UNCHANGED <<sq, dy>>
           ELSE /\ Stored(storage_save_capture(storage, capture))
                /\ cyc' = [cyc EXCEPT !.i = @ + 1,
                             !.snow_count = IF analysis.has_snow = Some(TRUE) THEN @ + 1 ELSE @,
                             !.log = @ \o <<(<<"analyze", camera.Id>>), <<"save_capture", camera.Id>> >>]
                /\ hist' = [hist EXCEPT !.origin = Upsert(@, camera.Id,
                                [hash |-> cyc.image_hash, image_key |-> cyc.image_key])]
                /\ pc' = AfterCamera
    /\ clock' = clock + 1
    /\ UNCHANGED <<backend, ops, env>>

\* analysis = analyze_image_bytes(...); storage.save_capture(capture)
AnalyzeAndSave ==
    /\ pc = "analyze"
    /\ LET analysis == analyze_image_bytes(cyc.image_data)
           camera == cyc.cameras[cyc.i]
           capture == CaptureRecord(camera.Id, cyc.cycle_id, clock + 1, cyc.image_key,
                          analysis.has_snow, analysis.notes,
                          camera.Location, camera.Latitude)
       IN  /\ Stored(storage_save_capture(storage, capture))
           /\ cyc' = [cyc EXCEPT !.i = @ + 1,
                        !.snow_count = IF analysis.has_snow = Some(TRUE) THEN @ + 1 ELSE @,
                        !.log = @ \o <<(<<"analyze", camera.Id>>), <<"save_capture", camera.Id>> >>]
           /\ hist' = [hist EXCEPT !.origin = Upsert(@, camera.Id,
                           [hash |-> cyc.image_hash, image_key |-> cyc.image_key])]
    /\ clock' = clock + 1
    /\ pc' = AfterCamera
    /\ UNCHANGED <<backend, ops, env>>

\* if primary_route and primary_route.polyline
HasPolyline(primary_route) ==
    IF primary_route = None THEN FALSE ELSE primary_route[1].polyline # ""

\* conditions = fetch_route_conditions(...); storage.save_road_conditions(...)
FetchConditions ==
    /\ pc = "conditions"
    /\ IF ~HasPolyline(cyc.primary_route)
       THEN UNCHANGED <<sq, dy, cyc>>
       ELSE IF "conditions" \in env.down
       THEN /\ cyc' = [cyc EXCEPT !.raised = @ \cup {"conditions"}]
            /\ UNCHANGED <<sq, dy>>
       ELSE /\ Stored(storage_save_road_conditions(storage, cyc.cycle_id, FetchedConditions))
            /\ cyc' = [cyc EXCEPT !.log = Append(@, <<"save_road_conditions", 0>>)]
    /\ pc' = "events"
    /\ UNCHANGED <<backend, clock, hist, ops, env>>

\* events = fetch_route_events(...); storage.save_events(cycle_id, events)
FetchEvents ==
    /\ pc = "events"
    /\ IF ~HasPolyline(cyc.primary_route)
       THEN UNCHANGED <<sq, dy, cyc>>
       ELSE IF "events" \in env.down
       THEN /\ cyc' = [cyc EXCEPT !.raised = @ \cup {"events"}]
            /\ UNCHANGED <<sq, dy>>
       ELSE /\ Stored(storage_save_events(storage, cyc.cycle_id, FetchedEvents))
            /\ cyc' = [cyc EXCEPT !.events = FetchedEvents,
                                  !.log = Append(@, <<"save_events", 0>>)]
    /\ pc' = "weather"
    /\ UNCHANGED <<backend, clock, hist, ops, env>>

\* weather = fetch_route_weather(...); storage.save_weather(cycle_id, weather)
FetchWeather ==
    /\ pc = "weather"
    /\ IF "weather" \in env.down
       THEN /\ cyc' = [cyc EXCEPT !.raised = @ \cup {"weather"}]
            /\ UNCHANGED <<sq, dy>>
       ELSE /\ Stored(storage_save_weather(storage, cyc.cycle_id, FetchedWeather))
            /\ cyc' = [cyc EXCEPT !.log = Append(@, <<"save_weather", 0>>)]
    /\ pc' = "passes"
    /\ UNCHANGED <<backend, clock, hist, ops, env>>

\* passes = fetch_route_passes(...); storage.save_mountain_passes(...)
FetchPasses ==
    /\ pc = "passes"
    /\ cyc' = IF "passes" \in env.down
              THEN [cyc EXCEPT !.raised = @ \cup {"passes"}]
              ELSE [cyc EXCEPT !.log = Append(@, <<"save_mountain_passes", 0>>)]
    /\ pc' = "plows"
    /\ UNCHANGED <<sq, dy, backend, clock, hist, ops, env>>

\* step 5c without its try block: a raising fetch_route_plows leaves
\* run_capture_cycle
FetchPlowsUncaught ==
    /\ pc = "plows"
    /\ IF "plows" \in env.down
       THEN /\ hist' = [hist EXCEPT !.last =
                           [cycle_id |-> cyc.cycle_id, outcome |-> "raised", at |-> pc,
                            raised |-> cyc.raised \cup {"plows"}, log |-> cyc.log]]
            /\ cyc' = NoCycle
            /\ pc' = "idle"
       ELSE /\ cyc' = [cyc EXCEPT !.log = Append(@, <<"save_snow_plows", 0>>)]
            /\ pc' = "summary"
            /\ hist' = hist
    /\ UNCHANGED <<sq, dy, backend, clock, ops, env>>

\* plows = fetch_route_plows(...); storage.save_snow_plows(cycle_id, plows)
FetchPlows ==
    /\ pc = "plows"
    /\ cyc' = IF "plows" \in env.down
              THEN [cyc EXCEPT !.raised = @ \cup {"plows"}]
              ELSE [cyc EXCEPT !.log = Append(@, <<"save_snow_plows", 0>>)]
    /\ pc' = "summary"
    /\ UNCHANGED <<sq, dy, backend, clock, hist, ops, env>>

\* SummaryOf with the last route of the list in the place of the first
SummaryOfLastRoute(c, completed_at) ==
    [cycle_id |-> c.cycle_id, started_at |-> c.cycle_id, completed_at |-> completed_at,
     cameras_processed |-> Len(c.cameras), snow_count |-> c.snow_count,
     event_count |-> Len(c.events),
     travel_time_s |-> IF c.routes # <<>> THEN Some(c.routes[Len(c.routes)].duration_s) ELSE None,
     distance_m |-> IF c.routes # <<>> THEN Some(c.routes[Len(c.routes)].distance_m) ELSE None]

\* the CycleSummary run_capture_cycle fills in at step 6
SummaryOf(c, completed_at) ==
    [cycle_id |-> c.cycle_id, started_at |-> c.cycle_id, completed_at |-> completed_at,
     cameras_processed |-> Len(c.cameras), snow_count |-> c.snow_count,
     event_count |-> Len(c.events),
     travel_time_s |-> IF c.primary_route # None THEN Some(c.primary_route[1].duration_s) ELSE None,
     distance_m |-> IF c.primary_route # None THEN Some(c.primary_route[1].distance_m) ELSE None]

\* storage.save_cycle(cycle)
Summarize ==
    /\ pc = "summary"
    /\ Stored(storage_save_cycle(storage, SummaryOf(cyc, clock + 1)))
    /\ cyc' = [cyc EXCEPT !.log = Append(@, <<"save_cycle", 0>>)]
    /\ clock' = clock + 1
    /\ pc' = "export"
    /\ UNCHANGED <<backend, hist, ops, env>>

\* how a cycle that ended is logged
Ended(outcome) ==
    [hist EXCEPT !.last = [cycle_id |-> cyc.cycle_id, outcome |-> outcome, at |-> pc,
                           raised |-> cyc.raised, log |-> cyc.log]]

\* step 7 left out: the cycle returns right after save_cycle
ExportSkipped ==
    /\ pc = "export"
    /\ hist' = Ended("completed")
    /\ cyc' = NoCycle
    /\ pc' = "idle"
    /\ UNCHANGED <<sq, dy, backend, clock, ops, env>>

\* export_cycle_to_file(...); export_cycle_index(...); the cycle returns
Export ==
    /\ pc = "export"
    /\ hist' = [Ended("completed") EXCEPT !.last.log = Append(@, <<"export", 0>>)]
    /\ cyc' = NoCycle
    /\ pc' = "idle"
    /\ UNCHANGED <<sq, dy, backend, clock, ops, env>>

Next ==
    \/ StartCycle
    \/ RouteRefresh
    \/ RouteRefreshFallback
    \/ CameraMatch
    \/ Download
    \/ SkipAnalysis
    \/ SaveImage
    \/ SaveImageHash
    \/ AnalyzeAndSave
    \/ FetchConditions
    \/ FetchEvents
    \/ FetchWeather
    \/ FetchPasses
    \/ FetchPlows
    \/ Summarize
    \/ Export

Spec == Init /\ [][Next]_vars

\* run_capture_cycle is straight-line code over a finite camera list: once
\* called, each of its steps is taken as soon as the call before it has
\* returned or raised
SpecFair == Spec /\ WF_vars(Next)

-----------------------------------------------------------------------------
(* Faults: a storage call raises.                                            *)

\* most storage exceptions of one run
MaxFaults == 1

\* the store after a save_routes call that raised at its (k+1)-th route:
\* SQLite never commits, DynamoDB keeps the items already put
storage_save_routes_raised(st, routes, k) ==
    IF backend = "dynamo" THEN DynamoStorage_save_routes(st, SubSeq(routes, 1, k))
    ELSE st

\* how a cycle that a fault ended is logged
Faulted(outcome) == [Ended(outcome) EXCEPT !.faults = @ + 1]

\* storage.save_routes(routes) raises: routes = storage.get_routes()
RouteSaveRaises ==
    /\ pc = "routes"
    /\ hist.faults < MaxFaults
    /\ \E routes \in FetchedRoutes, k \in 0..1 :
        LET st == storage_save_routes_raised(storage, routes, k)
        IN  /\ Stored(st)
            /\ cyc' = [cyc EXCEPT !.routes = RouteFallback(st),
                         !.primary_route = IF RouteFallback(st) # <<>>
                                           THEN Some(RouteFallback(st)[1]) ELSE None,
                         !.fallback = TRUE,
                         !.log = Append(@, <<"get_routes", 0>>)]
    /\ hist' = [hist EXCEPT !.faults = @ + 1]
    /\ pc' = "cameras"
    /\ UNCHANGED <<backend, clock, ops, env>>

\* the storage.get_routes() of the except branch raises as well: nothing
\* catches it, the exception leaves run_capture_cycle
RouteFallbackRaises ==
    /\ pc = "routes"
    /\ hist.faults < MaxFaults
    /\ hist' = Faulted("raised")
    /\ cyc' = NoCycle
    /\ pc' = "idle"
    /\ UNCHANGED <<sq, dy, backend, clock, ops, env>>

\* a storage call of the camera loop or save_cycle raises: no try block
\* encloses it, the exception leaves run_capture_cycle
StorageRaises ==
    /\ pc \in {"download", "skip", "save_image", "save_image_hash", "analyze", "summary"}
    /\ hist.faults < MaxFaults
    /\ hist' = Faulted("raised")
    /\ cyc' = NoCycle
    /\ pc' = "idle"
    /\ UNCHANGED <<sq, dy, backend, clock, ops, env>>

\* the step that follows the try block of an enrichment category
AfterEnrichment(category) ==
    CASE category = "conditions" -> "events"
      [] category = "events" -> "weather"
      [] category = "weather" -> "passes"
      [] category = "passes" -> "plows"
      [] OTHER -> "summary"

\* step 5 with the storage call outside its try block: a raising
\* storage.save_<category> leaves run_capture_cycle
EnrichmentSaveUncaught ==
    /\ pc \in Categories
    /\ pc \in {"conditions", "events"} => HasPolyline(cyc.primary_route)
    /\ pc \notin env.down
    /\ hist.faults < MaxFaults
    /\ hist' = [Faulted("raised") EXCEPT !.last.raised = @ \cup {pc}]
    /\ cyc' = NoCycle
    /\ pc' = "idle"
    /\ UNCHANGED <<sq, dy, backend, clock, ops, env>>

\* the fetch of a category succeeded and its storage.save_<category> raises
\* before it writes: the except branch of the category logs it and the
\* cycle goes on (events keeps the fetched list)
EnrichmentSaveRaises ==
    /\ pc \in Categories
    /\ pc \in {"conditions", "events"} => HasPolyline(cyc.primary_route)
    /\ pc \notin env.down
    /\ hist.faults < MaxFaults
    /\ hist' = [hist EXCEPT !.faults = @ + 1]
    /\ cyc' = [cyc EXCEPT !.raised = @ \cup {pc},
                          !.events = IF pc = "events" THEN FetchedEvents ELSE @]
    /\ pc' = AfterEnrichment(pc)
    /\ UNCHANGED <<sq, dy, backend, clock, ops, env>>

NextFaults ==
    \/ Next
    \/ RouteSaveRaises
    \/ RouteFallbackRaises
    \/ StorageRaises
    \/ EnrichmentSaveRaises

SpecFaults == Init /\ [][NextFaults]_vars

-----------------------------------------------------------------------------
(* Properties of the capture cycle. *)

\* the stored captures of one camera in one cycle
CapturesOf(camera_id, cycle_id) ==
    LET mine(c) == c.camera_id = camera_id
    IN  Filter(storage_get_captures_by_cycle(storage, cycle_id), mine)

\* the cycle ids of the stored CycleSummary records
StoredCycleIds ==
    {c.cycle_id : c \in Range(storage_get_cycles(storage, CyclesLimit))}

\* the call e is in the log before the call f
Before(log, e, f) ==
    \E i, j \in DOMAIN log : i < j /\ log[i] = e /\ log[j] = f

\* C1 (deduplication across cycles), as claimed: when the running cycle took
\* the unchanged-image path for a camera, it made no save_image call for that
\* camera and stored exactly one capture for (camera, cycle), whose image_key
\* is the image_key of the capture that analysed those bytes.
C1_DedupAcrossCycles ==
    pc # "harness" =>
    \A k \in DOMAIN cyc.log :
        cyc.log[k][1] = "skip" =>
            /\ \A m \in DOMAIN cyc.log : cyc.log[m] # <<"save_image", cyc.log[k][2]>>
            /\ Len(CapturesOf(cyc.log[k][2], cyc.cycle_id)) = 1
            /\ cyc.log[k][2] \in DOMAIN hist.origin
            /\ CapturesOf(cyc.log[k][2], cyc.cycle_id)[1].image_key
                   = hist.origin[cyc.log[k][2]].image_key

\* C2 (enrichment failure): a cycle in which all five enrichment fetches
\* raised goes on to Summarize and Export; once it has ended it has completed,
\* it called save_cycle exactly once, exactly one CycleSummary is stored for
\* it, that summary has event_count 0, and the export came after save_cycle.
C2_AllEnrichmentRaised ==
    pc # "harness" =>
        /\ cyc.raised = Categories => pc \in {"summary", "export"}
        /\ (pc = "idle" /\ hist.last.raised = Categories) =>
            /\ hist.last.outcome = "completed"
            /\ Count(hist.last.log, <<"save_cycle", 0>>) = 1
            /\ Before(hist.last.log, <<"save_cycle", 0>>, <<"export", 0>>)
            /\ LET mine(c) == c.cycle_id = hist.last.cycle_id
                   found == Filter(storage_get_cycles(storage, CyclesLimit), mine)
               IN  Len(found) = 1 /\ found[1].event_count = 0

\* C2 witness: a cycle with a primary route that has a polyline ended after
\* all five enrichment fetches raised.
C2_Witness ==
    /\ pc = "idle"
    /\ hist.last.raised = Categories
    /\ hist.last.outcome = "completed"
    /\ hist.last.cycle_id \in StoredCycleIds

\* C11 (download failure): once the download for a camera has failed in the
\* running cycle, no capture of that camera is stored under the cycle's id;
\* and the step in which the download fails leaves the camera's stored hash,
\* both image stores and the stored captures as they were and moves on to
\* the next camera (or to the enrichment when it was the last one).
C11_DownloadFailure ==
    /\ [](pc \notin {"harness", "idle"} =>
            \A k \in 1..Len(cyc.log) :
                cyc.log[k][1] = "download_failed" =>
                    CapturesOf(cyc.log[k][2], cyc.cycle_id) = <<>>)
    /\ [][(pc = "download" /\ cyc'.log # <<>>
            /\ cyc'.log[Len(cyc'.log)][1] = "download_failed") =>
            LET X == cyc.cameras[cyc.i].Id
            IN  /\ storage_get_image_hash(storage', X) = storage_get_image_hash(storage, X)
                /\ sq'.images = sq.images
                /\ dy'.bucket = dy.bucket
                /\ storage_get_recent_captures(storage', RecentLimit)
                       = storage_get_recent_captures(storage, RecentLimit)
                /\ cyc'.i = cyc.i + 1
                /\ cyc'.snow_count = cyc.snow_count
                /\ pc' = IF cyc.i < Len(cyc.cameras) THEN "download" ELSE "conditions"]_vars

\* C11 witness: the cycle has reached its summary after the download failed
\* for a camera that has a stored hash and a stored image from an earlier
\* cycle, and another camera of the same cycle was captured.
C11_Witness ==
    /\ pc = "summary"
    /\ \E k \in 1..Len(cyc.log) :
        /\ cyc.log[k][1] = "download_failed"
        /\ storage_get_image_hash(storage, cyc.log[k][2]) # None
        /\ \E j \in 1..Len(cyc.log) :
               j > k /\ cyc.log[j][1] \in {"save_capture", "skip"}

\* the place of a step in the second half of the cycle
Position(at) ==
    CASE at = "conditions" -> 1 [] at = "events" -> 2 [] at = "weather" -> 3
      [] at = "passes" -> 4 [] at = "plows" -> 5 [] at = "summary" -> 6
      [] at = "export" -> 7 [] OTHER -> 0

\* the storage call that ends the try block of a category
SaveCall(category) ==
    CASE category = "conditions" -> "save_road_conditions"
      [] category = "events" -> "save_events"
      [] category = "weather" -> "save_weather"
      [] category = "passes" -> "save_mountain_passes"
      [] OTHER -> "save_snow_plows"

\* the try block of the category was entered: it raised or it saved
Attempted(category, raised, log) ==
    category \in raised \/ Count(log, <<SaveCall(category), 0>>) > 0

\* C12 (enrichment isolation): when a category raised, in its fetch or in its
\* storage call, every category after it that the cycle has passed was
\* attempted; no enrichment step ends the cycle, each one hands over to the
\* step after it; and a cycle that ended after a category raised ended in or
\* after save_cycle.
C12_EnrichmentIsolation ==
    /\ [](pc \notin {"harness", "idle"} =>
            \A c \in cyc.raised, d \in Categories :
                (Position(c) < Position(d) /\ Position(d) < Position(pc)) =>
                    Attempted(d, cyc.raised, cyc.log))
    /\ [](pc \notin {"harness", "idle"} /\ cyc.raised # {} => Position(pc) > 1)
    /\ [](pc = "idle" /\ hist.last.raised # {} =>
            /\ hist.last.at \in {"summary", "export"}
            /\ \A c \in hist.last.raised, d \in Categories :
                   Position(c) < Position(d) =>
                       Attempted(d, hist.last.raised, hist.last.log))
    /\ [][(pc \in Categories) =>
            (Position(pc') = Position(pc) + 1 /\ cyc'.cycle_id = cyc.cycle_id)]_vars

\* C12 witness: a cycle is about to export after the storage call of the
\* events category raised alone, between a saved conditions batch and a saved
\* weather batch.
C12_Witness ==
    /\ pc = "export"
    /\ cyc.raised = {"events"}
    /\ Before(cyc.log, <<"save_road_conditions", 0>>, <<"save_weather", 0>>)
    /\ Count(cyc.log, <<"save_cycle", 0>>) = 1

\* C13 (storage-failure isolation), as claimed: a cycle in which a storage
\* call raised inside the per-camera loop (save_camera, get_image_hash,
\* get_recent_captures, save_image, save_image_hash, save_capture) has not
\* ended by that exception: once it has ended it has completed and its
\* CycleSummary is stored.
C13_StorageFailureIsolation ==
    (pc = "idle" /\ hist.last.at \in {"download", "skip", "save_image", "save_image_hash", "analyze"}) =>
        /\ hist.last.outcome = "completed"
        /\ hist.last.cycle_id \in StoredCycleIds

\* the stage of the cycle a step belongs to
Stage(at) ==
    CASE at = "routes" -> 1
      [] at = "cameras" -> 2
      [] at \in {"download", "skip", "save_image", "save_image_hash", "analyze"} -> 3
      [] at \in Categories -> 4
      [] at = "summary" -> 5
      [] at = "export" -> 6
      [] OTHER -> 0

\* an upper bound on the steps a cycle at position `at` still takes: four
\* per camera not yet finished, seven for the enrichment, summary and export
StepsLeft(at, c) ==
    CASE at = "routes" -> 4 * Len(MatchCameras(get_all_camera_ids, env.feed)) + 9
      [] at = "cameras" -> 4 * Len(MatchCameras(get_all_camera_ids, env.feed)) + 8
      [] at = "download" -> 4 * (Len(c.cameras) - c.i) + 11
      [] at = "save_image" -> 4 * (Len(c.cameras) - c.i) + 10
      [] at = "save_image_hash" -> 4 * (Len(c.cameras) - c.i) + 9
      [] at \in {"analyze", "skip"} -> 4 * (Len(c.cameras) - c.i) + 8
      [] at \in Categories \cup {"summary", "export"} -> 8 - Position(at)
      [] OTHER -> 0

C15_ExportOrdering ==
    /\ [](pc \notin {"idle", "harness"} =>
            /\ Count(cyc.log, <<"export", 0>>) = 0
            /\ Count(cyc.log, <<"save_cycle", 0>>) = (IF pc = "export" THEN 1 ELSE 0)
            /\ pc = "export" => cyc.cycle_id \in StoredCycleIds)
    /\ [](pc = "idle" /\ hist.last.outcome # "none" =>
            /\ Count(hist.last.log, <<"export", 0>>) = Count(hist.last.log, <<"save_cycle", 0>>)
            /\ Count(hist.last.log, <<"export", 0>>) = (IF hist.last.outcome = "completed" THEN 1 ELSE 0)
            /\ hist.last.outcome = "completed" =>
                   /\ Before(hist.last.log, <<"save_cycle", 0>>, <<"export", 0>>)
                   /\ hist.last.cycle_id \in StoredCycleIds
            /\ hist.last.at = "summary" => Count(hist.last.log, <<"export", 0>>) = 0)
    /\ [][(pc = "export") =>
            (pc' = "idle" /\ hist'.last.cycle_id = cyc.cycle_id
               /\ hist'.last.log = Append(cyc.log, <<"export", 0>>))]_vars

\* C15 witness: a cycle has ended with its export although an earlier stage
\* failed: save_routes raised and stored routes were used, and an enrichment
\* category raised.
C15_Witness ==
    /\ pc = "idle"
    /\ hist.last.outcome = "completed"
    /\ hist.faults = 1
    /\ Count(hist.last.log, <<"get_routes", 0>>) = 1
    /\ hist.last.raised # {}
    /\ Before(hist.last.log, <<"save_cycle", 0>>, <<"export", 0>>)

\* every stored capture of one camera
AllCapturesOf(camera_id) ==
    UNION {Range(CapturesOf(camera_id, c)) : c \in 1..clock}

\* C16 (skip path copies the latest analysis), as claimed: when the running
\* cycle took the unchanged-image path for a camera, the capture it stored
\* for that camera has the has_snow of the most recent earlier stored capture
\* of the camera, and that capture's notes followed by the cached tag.
C16_SkipCopiesLatest ==
    pc # "harness" =>
    \A k \in DOMAIN cyc.log :
        cyc.log[k][1] = "skip" =>
            LET mine == CapturesOf(cyc.log[k][2], cyc.cycle_id)
                earlier == {c \in AllCapturesOf(cyc.log[k][2]) :
                               c.captured_at < mine[1].captured_at}
                prev == CHOOSE c \in earlier : \A d \in earlier : d.captured_at <= c.captured_at
            IN  /\ Len(mine) = 1
                /\ earlier # {}
                /\ mine[1].has_snow = prev.has_snow
                /\ mine[1].analysis_notes = prev.analysis_notes \o <<"[cached]">>

\* C17 (no-skip ordering): a downloaded image goes to save_image exactly
\* when its hash differs from the stored hash of the camera; in the log of
\* the running cycle every save_image of a camera is followed at once by its
\* save_image_hash, then by the analysis, then by save_capture, and none of
\* these calls occurs outside that run of four; and when the analysis is
\* about to begin the stored hash of the camera is already the hash of the
\* downloaded bytes and the image is stored under the new key.
C17_NoSkipOrdering ==
    /\ [](pc \notin {"idle", "harness"} =>
            /\ \A k \in DOMAIN cyc.log :
                LET X == cyc.log[k][2]
                    at(j, call) == j \in DOMAIN cyc.log /\ cyc.log[j] = <<call, X>>
                IN  /\ cyc.log[k][1] = "save_image" =>
                        /\ k = Len(cyc.log) => pc = "save_image_hash"
                        /\ k < Len(cyc.log) => at(k + 1, "save_image_hash")
                    /\ cyc.log[k][1] = "save_image_hash" =>
                        /\ at(k - 1, "save_image")
                        /\ k = Len(cyc.log) => pc = "analyze"
                        /\ k < Len(cyc.log) => at(k + 1, "analyze")
                    /\ cyc.log[k][1] = "analyze" =>
                        at(k - 1, "save_image_hash") /\ at(k + 1, "save_capture")
                    /\ cyc.log[k][1] = "save_capture" => at(k - 1, "analyze")
            /\ pc = "analyze" =>
                /\ cyc.image_hash = Sha256(cyc.image_data)
                /\ storage_get_image_hash(storage, cyc.cameras[cyc.i].Id) = Some(cyc.image_hash)
                /\ cyc.image_key \in DOMAIN (IF backend = "dynamo" THEN dy.bucket ELSE sq.images))
    /\ [][(pc = "download" /\ pc' \in {"skip", "save_image"}) =>
            ((pc' = "save_image") =
                (storage_get_image_hash(storage, cyc.cameras[cyc.i].Id)
                    # Some(Sha256(cyc'.image_data))))]_vars

\* C17 witness: the analysis of new bytes is about to begin for a camera
\* whose earlier analysis was of other bytes; the stored hash is already the
\* new one.
C17_Witness ==
    /\ pc = "analyze"
    /\ cyc.cameras[cyc.i].Id \in DOMAIN hist.origin
    /\ hist.origin[cyc.cameras[cyc.i].Id].hash # cyc.image_hash
    /\ storage_get_image_hash(storage, cyc.cameras[cyc.i].Id) = Some(cyc.image_hash)

\* the stored hash of the camera is the hash of bytes that no cycle has
\* analysed (hist.origin holds the hash of the last analysed bytes), and no
\* cycle stands between save_image_hash and save_capture for the camera
Orphan(X) ==
    /\ storage_get_image_hash(storage, X) # None
    /\ X \in DOMAIN hist.origin =>
           hist.origin[X].hash # storage_get_image_hash(storage, X)[1]
    /\ ~(pc = "analyze" /\ cyc.cameras[cyc.i].Id = X)

\* C18 (crash window): when the stored hash of camera X belongs to bytes
\* that were never analysed (a cycle stopped after save_image_hash and before
\* save_capture), a download of X that delivers those bytes takes the skip
\* path; the skip path runs no analysis; and as long as the stored hash of X
\* stays the same, its bytes stay unanalysed.
C18_CrashWindow ==
    /\ [][(pc = "download" /\ pc' \in {"skip", "save_image"}
             /\ Orphan(cyc.cameras[cyc.i].Id)
             /\ storage_get_image_hash(storage, cyc.cameras[cyc.i].Id)
                    = Some(Sha256(cyc'.image_data))) =>
            (pc' = "skip")]_vars
    /\ [][(pc = "skip") =>
            (hist'.origin = hist.origin
               /\ (pc' = "idle"
                     \/ cyc'.log = Append(cyc.log, <<"skip", cyc.cameras[cyc.i].Id>>)))]_vars
    /\ [][\A X \in 1..3 :
            (pc # "harness" /\ Orphan(X)
               /\ storage_get_image_hash(storage', X) = storage_get_image_hash(storage, X)) =>
                Orphan(X)']_vars

\* C18 witness: after a cycle stopped in the window for a camera, the
\* running cycle has taken the skip path for that camera, whose stored hash
\* is still the hash of bytes that were never analysed.
C18_Witness ==
    /\ pc \notin {"idle", "harness"}
    /\ hist.last.at = "analyze"
    /\ \E k \in DOMAIN cyc.log :
        /\ cyc.log[k][1] = "skip"
        /\ Orphan(cyc.log[k][2])

\* C19 (camera upsert), as claimed: after any sequence of save_camera calls
\* get_cameras returns, on either backend, one camera per Id saved and each
\* one equals the camera last saved under its Id.
C19_CameraUpsert ==
    pc = "harness" =>
    \A L \in {SQLiteStorage_get_cameras(sq), DynamoStorage_get_cameras(dy)} :
        /\ Len(L) = Cardinality(DOMAIN hist.cameras)
        /\ \A i \in DOMAIN L :
            /\ L[i].Id \in DOMAIN hist.cameras
            /\ L[i] = hist.cameras[L[i].Id]

\* C20 (image hash is last-write-wins per camera): on either backend
\* get_image_hash(c) is None when no save_image_hash(c, h) was made, and
\* otherwise the h of the last such call, whatever was saved for other
\* camera ids or other kinds in between.
C20_ImageHashLastWrite ==
    pc = "harness" =>
    \A c \in 1..3 :
        LET expected == IF c \in DOMAIN hist.hashes THEN Some(hist.hashes[c]) ELSE None
        IN  /\ SQLiteStorage_get_image_hash(sq, c) = expected
            /\ DynamoStorage_get_image_hash(dy, c) = expected

\* C20 witness: three save_image_hash calls and nothing else were made, for
\* cameras 1 and 2; camera 1 reads h2, camera 2 reads h1, camera 3 None.
C20_Witness ==
    /\ pc = "harness"
    /\ ops = 3
    /\ hist.calls = EmptyMap
    /\ sq.images = EmptyMap
    /\ DynamoStorage_get_image_hash(dy, 1) = Some("h2")
    /\ DynamoStorage_get_image_hash(dy, 2) = Some("h1")
    /\ SQLiteStorage_get_image_hash(sq, 3) = None

\* C21 (get_recent_captures), as claimed: on both backends
\* get_recent_captures(limit) returns at most `limit` records, ordered newest
\* first by captured_at, and they are the newest of all captures saved, of
\* whatever cycle: a saved capture that is not returned is no newer than any
\* returned one, and is left out only when `limit` records are returned.
C21_RecentCaptures ==
    pc = "harness" =>
    \A limit \in 1..MaxOps :
    \A L \in {SQLiteStorage_get_recent_captures(sq, limit),
              DynamoStorage_get_recent_captures(dy, limit)} :
        LET saved == UNION {SavedUnder("capture", c) : c \in StoreCycleIds}
            key(r) == <<r.camera_id, r.cycle_id, r.captured_at>>
            left == {s \in saved : \A i \in DOMAIN L : key(L[i]) # key(s)}
        IN  /\ Len(L) <= limit
            /\ \A i \in DOMAIN L : \E s \in saved : key(s) = key(L[i])
            /\ \A i, j \in DOMAIN L : i < j => L[i].captured_at >= L[j].captured_at
            /\ left # {} => Len(L) = limit
            /\ \A s \in left : \A i \in DOMAIN L : s.captured_at <= L[i].captured_at

LogIds(log, op) ==
    LET is(e) == e[1] = op
        id(e) == e[2]
    IN  Map(Filter(log, is), id)

\* C23 (CameraMatch): from CameraMatch on, the cameras of the running cycle
\* are cameras of the fetched list, one per configured id that occurs in the
\* fetched list, in configuration order (the order of first mention over the
\* routes); the cameras saved so far are the first of them in that order, and
\* all of them once the loop is over; for a configured id that is not in the
\* fetched list no camera is saved and no capture is stored in the cycle; and
\* the cycle ends as completed.
C23_CameraMatch ==
    /\ (pc \notin {"harness", "idle", "routes", "cameras"} =>
        LET fetched == {env.feed[k].Id : k \in DOMAIN env.feed}
            configured == AllConfiguredCameraIds
            first(id) == CHOOSE k \in DOMAIN configured :
                            configured[k] = id /\ \A m \in 1..(k - 1) : configured[m] # id
            ids == [i \in DOMAIN cyc.cameras |-> cyc.cameras[i].Id]
            saved == LogIds(cyc.log, "save_camera")
        IN  /\ Range(ids) = Range(configured) \cap fetched
            /\ \A i, j \in DOMAIN ids : i < j => first(ids[i]) < first(ids[j])
            /\ \A i \in DOMAIN cyc.cameras : cyc.cameras[i] \in Range(env.feed)
            /\ Len(saved) <= Len(ids)
            /\ \A k \in DOMAIN saved : saved[k] = ids[k]
            /\ Position(pc) > 0 => saved = ids
            /\ \A id \in Range(configured) \ fetched :
                /\ \A k \in DOMAIN cyc.log : cyc.log[k][2] # id
                /\ CapturesOf(id, cyc.cycle_id) = <<>>)
    /\ (pc = "idle" /\ hist.last.outcome # "none" => hist.last.outcome = "completed")

\* C23 witness: the cycle is at its summary; the fetched list holds camera 2
\* only, twice, so camera 1, configured on both routes, was not matched;
\* camera 2 was saved once and has its capture.
C23_Witness ==
    /\ pc = "summary"
    /\ {env.feed[k].Id : k \in DOMAIN env.feed} = {2}
    /\ Len(env.feed) = 2
    /\ 1 \in Range(get_all_camera_ids)
    /\ LogIds(cyc.log, "save_camera") = <<2>>
    /\ Len(CapturesOf(2, cyc.cycle_id)) = 1
    /\ CapturesOf(1, cyc.cycle_id) = <<>>

\* C24 (every enrichment category is attempted), as claimed: in a cycle that
\* has come through the enrichment, the fetch of each of conditions, events,
\* weather, passes and plows was attempted (it raised, or its result was
\* stored), whatever routes RouteRefresh left.
C24_AllCategoriesAttempted ==
    pc \in {"summary", "export"} =>
        \A category \in Categories : Attempted(category, cyc.raised, cyc.log)

-----------------------------------------------------------------------------
(* Route geometry (route.py) and the UDOT client (udot.py): the functions    *)
(* are called on their own, once per run, on inputs drawn from small sets.   *)
(* A latitude or longitude is a whole number of steps of 0.01 degree.  The   *)
(* points handed to the route filters lie on one meridian; the points handed *)
(* to haversine_km on its own lie on a grid of 2.5 degrees around the        *)
(* origin.  Distances are in millimetres, so that rounding to three decimals *)
(* of a kilometre is a rounding to whole metres.                             *)

\* most entities in a list handed to a route filter
MaxLen == 3

\* float("inf")
Inf == 999999999

\* EARTH_RADIUS_KM * radians(0.01), in millimetres
EARTH_RADIUS_KM == 1111949

\* a kilometre
Km == 1000000

\* Camera, with the fields route.py reads and writes
RouteCamera(Id, Latitude, Longitude) ==
    [Id |-> Id, Latitude |-> Latitude, Longitude |-> Longitude,
     distance_from_route_km |-> None]

\* Event and SnowPlow, with the fields the route filters of udot.py read
Located(id, latitude, longitude) ==
    [id |-> id, latitude |-> latitude, longitude |-> longitude]

\* polyline_codec.decode: the (lat, lng) points of an encoded polyline
polyline_codec_decode(polyline) ==
    IF polyline = "poly-a" THEN <<(<<10, 111>>), <<12, 111>>, <<14, 111>> >>
    ELSE IF polyline = "poly-b" THEN <<(<<14, 111>>), <<1, 111>> >>
    ELSE <<>>

decode_route_points(route) ==
    IF route.polyline = "" THEN <<>> ELSE polyline_codec_decode(route.polyline)

\* A float of the great-circle formula is a whole number of 1 / Unit, and
\* every multiplication, root and arc tangent rounds to it.
Unit == 10000

\* the coordinates the tables of sines and cosines cover: whole multiples of
\* 2.5 degrees, up to 5 degrees from the origin
Grid == 250

OnGrid(x) == x % Grid = 0 /\ x >= -2 * Grid /\ x <= 2 * Grid

\* x * y, rounded
Mul(x, y) == (x * y + Unit \div 2) \div Unit

\* math.sin(math.radians(x)), odd in x, for x up to 10 degrees either way
math_sin(x) ==
    LET ax == IF x < 0 THEN 0 - x ELSE x
        s == IF ax = 0 THEN 0
             ELSE IF ax = Grid THEN 436
             ELSE IF ax = 2 * Grid THEN 872
             ELSE IF ax = 3 * Grid THEN 1305
             ELSE 1736
    IN  IF x < 0 THEN 0 - s ELSE s

\* math.cos(math.radians(x)), even in x
math_cos(x) ==
    LET ax == IF x < 0 THEN 0 - x ELSE x
    IN  IF ax = 0 THEN Unit ELSE IF ax = Grid THEN 9990 ELSE 9962

\* math.sqrt(x), rounded down
math_sqrt(x) == CHOOSE r \in 0..Unit : r * r <= x * Unit /\ (r + 1) * (r + 1) > x * Unit

\* math.atan2(y, x) for y >= 0 and x >= 0, as an angle in steps of 0.01
\* degree: the arc tangent of t = y / x is t - t ** 3 / 3 for the small t of
\* the covered coordinates
math_atan2(y, x) ==
    IF y = 0 THEN 0
    ELSE IF x = 0 THEN 9000
    ELSE LET t == (y * Unit + x \div 2) \div x
             rad == t - (Mul(Mul(t, t), t) + 1) \div 3
         IN  (rad * 57296 + 50000) \div 100000

\* haversine_km with the latitude of the first point in the place of both
haversine_km_first_latitude(lat1, lon1, lat2, lon2) ==
    LET dlat == lat2 - lat1
        dlon == lon2 - lon1
        s1 == math_sin(dlat \div 2)
        s2 == math_sin(dlon \div 2)
        a == Mul(s1, s1) + Mul(Mul(math_cos(lat1), math_cos(lat1)), Mul(s2, s2))
        c == 2 * math_atan2(math_sqrt(a), math_sqrt(Unit - a))
    IN  IF OnGrid(lat1) /\ OnGrid(lon1) /\ OnGrid(lat2) /\ OnGrid(lon2)
        THEN EARTH_RADIUS_KM * c
        ELSE EARTH_RADIUS_KM * (IF lat1 >= lat2 THEN lat1 - lat2 ELSE lat2 - lat1)

\* Angles are in steps of 0.01 degree, and EARTH_RADIUS_KM is the length of
\* one step, so math.radians has no operator of its own.  The formula is
\* computed for the coordinates the tables cover.  The other coordinates of
\* the model lie on one meridian and within a degree of each other, below
\* the resolution of Unit: there dlon = 0, a = sin(dlat / 2) ** 2 and
\* c = |dlat|.
haversine_km(lat1, lon1, lat2, lon2) ==
    LET dlat == lat2 - lat1
        dlon == lon2 - lon1
        s1 == math_sin(dlat \div 2)
        s2 == math_sin(dlon \div 2)
        a == Mul(s1, s1) + Mul(Mul(math_cos(lat1), math_cos(lat2)), Mul(s2, s2))
        c == 2 * math_atan2(math_sqrt(a), math_sqrt(Unit - a))
    IN  IF OnGrid(lat1) /\ OnGrid(lon1) /\ OnGrid(lat2) /\ OnGrid(lon2)
        THEN EARTH_RADIUS_KM * c
        ELSE EARTH_RADIUS_KM * (IF lat1 >= lat2 THEN lat1 - lat2 ELSE lat2 - lat1)

\* min(...) of a non-empty set of numbers
Min(S) == CHOOSE x \in S : \A y \in S : x <= y

min_distance_to_route(lat, lon, route_points) ==
    IF route_points = <<>> THEN Inf
    ELSE Min({haversine_km(lat, lon, route_points[i][1], route_points[i][2]) :
                 i \in DOMAIN route_points})

\* round(dist, 3), in metres
Round3(dist) == (dist + 500) \div 1000

\* min(range(len(route_points)), key=...): the first index of a nearest point
closest_idx(camera, route_points) ==
    Min({i \in DOMAIN route_points :
            haversine_km(camera.Latitude[1], camera.Longitude[1],
                         route_points[i][1], route_points[i][2])
              = min_distance_to_route(camera.Latitude[1], camera.Longitude[1], route_points)})

\* filter_cameras_by_route with the matches sorted by their distance
filter_cameras_by_route_by_distance(cameras, route, buffer_km) ==
    LET route_points == decode_route_points(route)
        dist(camera) ==
            min_distance_to_route(camera.Latitude[1], camera.Longitude[1], route_points)
        near(camera) ==
            /\ camera.Latitude # None /\ camera.Longitude # None
            /\ dist(camera) <= buffer_km
        set(camera) == [camera EXCEPT !.distance_from_route_km = Some(Round3(dist(camera)))]
    IN  IF route_points = <<>> THEN cameras
        ELSE SortBy(Map(Filter(cameras, near), set), dist)

\* filter_cameras_by_route with the cameras that lack a coordinate kept
filter_cameras_by_route_keeps_unlocated(cameras, route, buffer_km) ==
    LET route_points == decode_route_points(route)
        has(camera) == camera.Latitude # None /\ camera.Longitude # None
        dist(camera) ==
            IF has(camera)
            THEN min_distance_to_route(camera.Latitude[1], camera.Longitude[1], route_points)
            ELSE 0
        near(camera) == dist(camera) <= buffer_km
        set(camera) == [camera EXCEPT !.distance_from_route_km = Some(Round3(dist(camera)))]
        idx(camera) == IF has(camera) THEN closest_idx(camera, route_points) ELSE 0
    IN  IF route_points = <<>> THEN cameras
        ELSE SortBy(Map(Filter(cameras, near), set), idx)

\* the cameras within buffer_km of the route, each with its distance set,
\* sorted (stably) by the index of their closest route point
filter_cameras_by_route(cameras, route, buffer_km) ==
    LET route_points == decode_route_points(route)
        dist(camera) ==
            min_distance_to_route(camera.Latitude[1], camera.Longitude[1], route_points)
        near(camera) ==
            /\ camera.Latitude # None /\ camera.Longitude # None
            /\ dist(camera) <= buffer_km
        set(camera) == [camera EXCEPT !.distance_from_route_km = Some(Round3(dist(camera)))]
        idx(camera) == closest_idx(camera, route_points)
    IN  IF route_points = <<>> THEN cameras
        ELSE SortBy(Map(Filter(cameras, near), set), idx)

\* fetch_route_events, on the events that fetch_events returned
fetch_route_events(all_events, route, buffer_km) ==
    LET route_points == decode_route_points(route)
        near(e) ==
            /\ e.latitude # None /\ e.longitude # None
            /\ min_distance_to_route(e.latitude[1], e.longitude[1], route_points) <= buffer_km
    IN  IF route_points = <<>> THEN all_events ELSE Filter(all_events, near)

\* fetch_route_plows, on the plows that fetch_all_snow_plows returned
fetch_route_plows(all_plows, routes, buffer_km) ==
    LET all_route_points == Flatten([i \in DOMAIN routes |-> decode_route_points(routes[i])])
        near(p) ==
            /\ p.latitude # None /\ p.longitude # None
            /\ min_distance_to_route(p.latitude[1], p.longitude[1], all_route_points) <= buffer_km
    IN  IF all_plows = <<>> THEN <<>>
        ELSE IF all_route_points = <<>> THEN all_plows
        ELSE Filter(all_plows, near)

\* a call that returned v, a call that raised the exception e
Return(v) == [returns |-> v]

Raise(e) == [raises |-> e]

\* requests.RequestException and its subclasses; requests.JSONDecodeError,
\* which Response.json() raises for a body that is not JSON, is one of them
RequestException == {"ConnectionError", "Timeout", "HTTPError", "JSONDecodeError"}

\* the bodies of an answer: JSON lists, a JSON object, JSON null, no JSON
Bodies ==
    {<<"list", <<>> >>, <<"list", <<[Id |-> 1], [Id |-> 2]>> >>,
     <<"dict", [error |-> "something"]>>, <<"null", None>>, <<"text", "<html>">>}

\* what requests.get(url, params, timeout) can do: fail, or answer
Responses ==
    {Raise("ConnectionError"), Raise("Timeout")}
        \cup {Return([status |-> s, body |-> b]) : s \in {200, 404, 500}, b \in Bodies}

ENDPOINTS ==
    {"cameras", "roadconditions", "event", "weatherstations", "mountainpasses",
     "alerts", "servicevehicles"}

\* resp.raise_for_status()
raise_for_status(resp) ==
    IF resp.status >= 400 THEN Raise("HTTPError") ELSE Return(None)

\* resp.json()
json(resp) ==
    IF resp.body[1] = "text" THEN Raise("JSONDecodeError") ELSE Return(resp.body)

\* _fetch with `except requests.ConnectionError` in place of RequestException
_fetch_catches_connection_only(endpoint, response) ==
    LET tried ==
            IF "raises" \in DOMAIN response THEN response
            ELSE IF "raises" \in DOMAIN raise_for_status(response.returns)
            THEN raise_for_status(response.returns)
            ELSE IF "raises" \in DOMAIN json(response.returns)
            THEN json(response.returns)
            ELSE IF json(response.returns).returns[1] = "list"
            THEN Return(json(response.returns).returns[2])
            ELSE Return(<<>>)
    IN  IF "raises" \in DOMAIN tried /\ tried.raises = "ConnectionError"
        THEN Return(<<>>) ELSE tried

\* _fetch(endpoint, api_key), given what the request does
_fetch(endpoint, response) ==
    LET tried ==
            IF "raises" \in DOMAIN response THEN response
            ELSE IF "raises" \in DOMAIN raise_for_status(response.returns)
            THEN raise_for_status(response.returns)
            ELSE IF "raises" \in DOMAIN json(response.returns)
            THEN json(response.returns)
            ELSE IF json(response.returns).returns[1] = "list"
            THEN Return(json(response.returns).returns[2])
            ELSE Return(<<>>)
    IN  IF "raises" \in DOMAIN tried /\ tried.raises \in RequestException
        THEN Return(<<>>) ELSE tried

\* the lists of at most n elements of S
Lists(S, n) == UNION {[1..k -> S] : k \in 0..n}

\* cameras on route A, between two of its points, beyond 2 km of it, without
\* a longitude, and at latitude 0 next to the end of route B
RouteCameras ==
    {RouteCamera(1, Some(10), Some(111)), RouteCamera(2, Some(11), Some(111)),
     RouteCamera(3, Some(14), Some(111)), RouteCamera(4, Some(17), Some(111)),
     RouteCamera(5, Some(12), None), RouteCamera(6, Some(0), Some(111))}

\* events and plows: on a route, without coordinates, 5.6 km off, 12 km off
RouteEntities ==
    {Located(1001, Some(10), Some(111)), Located(1002, None, None),
     Located(1003, Some(19), Some(111)), Located(1004, Some(25), Some(111))}

\* points up to 5 degrees from the origin, in steps of 5 degrees
GridPoints == {<<lat, lon>> : lat \in {-2 * Grid, 0, 2 * Grid}, lon \in {-2 * Grid, 0, 2 * Grid}}

\* the calls of a run
UdotCalls ==
    {[call |-> "filter_cameras_by_route", cameras |-> c, route |-> r, buffer_km |-> b] :
        c \in Lists(RouteCameras, MaxLen), r \in {RouteA, RouteB, RouteAStub},
        b \in {2 * Km, 5 * Km}}
    \cup
    {[call |-> "fetch_route_events", all_events |-> e, route |-> r, buffer_km |-> 5 * Km] :
        e \in Lists(RouteEntities, MaxLen), r \in {RouteA, RouteB, RouteAStub}}
    \cup
    {[call |-> "fetch_route_plows", all_plows |-> p, routes |-> rs, buffer_km |-> 10 * Km] :
        p \in Lists(RouteEntities, MaxLen),
        rs \in {<<>>, <<RouteAStub>>, <<RouteAStub, RouteB>>, <<RouteA, RouteB>>}}
    \cup
    {[call |-> "_fetch", endpoint |-> e, response |-> r] : e \in ENDPOINTS, r \in Responses}
    \cup
    {[call |-> "haversine_km", lat1 |-> p[1], lon1 |-> p[2], lat2 |-> q[1], lon2 |-> q[2]] :
        p \in GridPoints, q \in GridPoints}

InitUdot ==
    /\ sq = SQLiteStorage_init
    /\ dy = DynamoStorage_init
    /\ backend = "none"
    /\ clock = 0
    /\ pc = "call"
    /\ cyc = None
    /\ hist = None
    /\ ops = 0
    /\ env \in UdotCalls

\* a call returns (or raises): cyc holds its outcome
Returned(outcome) ==
    /\ pc = "call"
    /\ pc' = "returned"
    /\ cyc' = outcome
    /\ UNCHANGED <<sq, dy, backend, clock, hist, ops, env>>

FilterCamerasByRoute ==
    /\ env.call = "filter_cameras_by_route"
    /\ Returned(Return(filter_cameras_by_route(env.cameras, env.route, env.buffer_km)))

FetchRouteEvents ==
    /\ env.call = "fetch_route_events"
    /\ Returned(Return(fetch_route_events(env.all_events, env.route, env.buffer_km)))

FetchRoutePlows ==
    /\ env.call = "fetch_route_plows"
    /\ Returned(Return(fetch_route_plows(env.all_plows, env.routes, env.buffer_km)))

Fetch ==
    /\ env.call = "_fetch"
    /\ Returned(_fetch(env.endpoint, env.response))

HaversineKm ==
    /\ env.call = "haversine_km"
    /\ Returned(Return(haversine_km(env.lat1, env.lon1, env.lat2, env.lon2)))

NextUdot ==
    \/ FilterCamerasByRoute
    \/ FetchRouteEvents
    \/ FetchRoutePlows
    \/ Fetch
    \/ HaversineKm

SpecUdot == InitUdot /\ [][NextUdot]_vars

\* C25 (route filter, membership): for a route with at least one point,
\* filter_cameras_by_route returns the input cameras that have a latitude and
\* a longitude and some route point within buffer_km, each as often as it is
\* in the input, no other camera, and each with distance_from_route_km set to
\* a value >= 0.
C25_FilterMembership ==
    (pc = "returned" /\ env.call = "filter_cameras_by_route"
        /\ decode_route_points(env.route) # <<>>) =>
    LET pts == decode_route_points(env.route)
        within(c) ==
            /\ c.Latitude # None /\ c.Longitude # None
            /\ \E i \in DOMAIN pts :
                haversine_km(c.Latitude[1], c.Longitude[1], pts[i][1], pts[i][2])
                    <= env.buffer_km
        input(k) == [cyc.returns[k] EXCEPT !.distance_from_route_km = None]
    IN  /\ \A k \in DOMAIN cyc.returns :
            /\ input(k) \in Range(env.cameras)
            /\ within(input(k))
            /\ cyc.returns[k].distance_from_route_km # None
            /\ cyc.returns[k].distance_from_route_km[1] >= 0
        /\ \A c \in Range(env.cameras) :
            Cardinality({k \in DOMAIN cyc.returns : input(k) = c})
                = IF within(c) THEN Count(env.cameras, c) ELSE 0

\* C25 witness: of three cameras, one on the route, one without longitude
\* and one 3.3 km off, a 2 km buffer returned the first alone, at distance 0.
C25_Witness ==
    /\ pc = "returned"
    /\ env.call = "filter_cameras_by_route"
    /\ env.buffer_km = 2 * Km
    /\ env.route = RouteA
    /\ {env.cameras[k].Id : k \in DOMAIN env.cameras} = {1, 4, 5}
    /\ Len(cyc.returns) = 1
    /\ cyc.returns[1].Id = 1
    /\ cyc.returns[1].distance_from_route_km = Some(0)

\* C26 (route filter, order): the cameras filter_cameras_by_route returns are
\* in ascending order of the index of their nearest route point, and cameras
\* with the same nearest index are in their input order.
C26_FilterOrder ==
    (pc = "returned" /\ env.call = "filter_cameras_by_route"
        /\ decode_route_points(env.route) # <<>>) =>
    LET pts == decode_route_points(env.route)
        d(c, i) == haversine_km(c.Latitude[1], c.Longitude[1], pts[i][1], pts[i][2])
        \* i is the index of a nearest point of c (the first of them)
        nearest(c, i) ==
            /\ \A j \in DOMAIN pts : d(c, i) <= d(c, j)
            /\ \A j \in 1..(i - 1) : d(c, j) > d(c, i)
        idx(c) == CHOOSE i \in DOMAIN pts : nearest(c, i)
        R == cyc.returns
    IN  /\ \A m, n \in DOMAIN R : m < n => idx(R[m]) <= idx(R[n])
        \* the returned cameras of one index are the kept inputs of that
        \* index, in input order
        /\ \A i \in DOMAIN pts :
            LET same(c) == idx(c) = i
                kept_i(c) == c.Latitude # None /\ c.Longitude # None
                                /\ idx(c) = i /\ d(c, i) <= env.buffer_km
                unset(c) == [c EXCEPT !.distance_from_route_km = None]
            IN  Map(Filter(R, same), unset) = Filter(env.cameras, kept_i)

\* C26 witness: the input listed a camera at the end of route A, then one at
\* its start, then one half way between the first two points; the start and
\* the half-way camera share index 1 and come back in input order, ahead of
\* the camera at the end.
C26_Witness ==
    /\ pc = "returned"
    /\ env.call = "filter_cameras_by_route"
    /\ env.route = RouteA
    /\ Len(env.cameras) = 3
    /\ [k \in 1..3 |-> env.cameras[k].Id] = <<3, 1, 2>>
    /\ [k \in DOMAIN cyc.returns |-> cyc.returns[k].Id] = <<1, 2, 3>>

\* C27 (empty polyline), as claimed: for a route without polyline,
\* filter_cameras_by_route and fetch_route_events return their input list as
\* it is, entities without coordinates included, and so does
\* fetch_route_plows when no route has a polyline; and a cycle whose primary
\* route has no polyline, and whose events fetch does not fail, has stored
\* all fetched events under its cycle id once the enrichment is over.
C27_EmptyPolylinePolicy ==
    (pc = "summary" /\ cyc.primary_route # None /\ "events" \notin env.down) =>
    LET route == cyc.primary_route[1]
        stored == IF backend = "dynamo" THEN DynamoStorage_get_events(dy, cyc.cycle_id)
                  ELSE SQLiteStorage_get_events(sq, cyc.cycle_id)
    IN  route.polyline = "" =>
        /\ \A cameras \in Lists(RouteCameras, MaxLen) : \A buffer_km \in {2 * Km, 5 * Km} :
            filter_cameras_by_route(cameras, route, buffer_km) = cameras
        /\ \A all \in Lists(RouteEntities, MaxLen) :
            /\ fetch_route_events(all, route, 5 * Km) = all
            /\ fetch_route_plows(all, <<route>>, 10 * Km) = all
            /\ fetch_route_plows(all, <<route, route>>, 10 * Km) = all
        /\ [i \in DOMAIN stored |-> stored[i].id]
               = [i \in DOMAIN FetchedEvents |-> FetchedEvents[i].id]

\* C28 (_fetch never raises): for every endpoint, _fetch returns; it returns
\* the list when the request was answered without an error status and with a
\* JSON list as its body, and the empty list when the request failed, the
\* status is an error status, or the body is no JSON list.
C28_FetchNeverRaises ==
    (pc = "returned" /\ env.call = "_fetch") =>
    LET answered == "returns" \in DOMAIN env.response
        resp == env.response.returns
    IN  /\ DOMAIN cyc = {"returns"}
        /\ cyc.returns =
            IF answered /\ resp.status < 400 /\ resp.body[1] = "list"
            THEN resp.body[2] ELSE <<>>

\* C28 witness: the request timed out, or was answered with status 500 and a
\* JSON list, or with status 200 and a body that is no JSON: the empty list
\* was returned.
C28_Witness ==
    /\ pc = "returned"
    /\ env.call = "_fetch"
    /\ cyc = Return(<<>>)
    /\ \/ env.response = Raise("Timeout")
       \/ env.response = Return([status |-> 500, body |-> <<"list", <<[Id |-> 1], [Id |-> 2]>> >>])
       \/ env.response = Return([status |-> 200, body |-> <<"text", "<html>">>])

-----------------------------------------------------------------------------
(* The command line (traffic_cam_monitor.py: cli): Settings are built, one   *)
(* cycle runs at once and, unless --once was given, the schedule library     *)
(* runs a cycle every 3 hours from a loop that polls it.  The clock counts   *)
(* hours; a cycle is seen from outside: it begins, and returns or raises.    *)

\* the hour at which a run is cut off
MaxHours == 12

\* most hours a cycle takes
MaxCycleHours == 4

\* schedule.every(3).hours
Period == 3

\* Settings with every field given a default
Settings_all_optional(environ) == Return(environ)

\* Settings(): udot_api_key and anthropic_api_key have no default
Settings(environ) ==
    IF {"UDOT_API_KEY", "ANTHROPIC_API_KEY"} \subseteq environ
    THEN Return(environ) ELSE Raise("ValidationError")

InitCli ==
    /\ sq = SQLiteStorage_init
    /\ dy = DynamoStorage_init
    /\ backend = "none"
    /\ clock = 0
    /\ pc = "cli"
    /\ cyc = [in_flight |-> 0, next_run |-> None]
    /\ hist = [calls |-> {}, exit_status |-> None]
    /\ ops = 0
    /\ env \in [environ : SUBSET {"UDOT_API_KEY", "ANTHROPIC_API_KEY"}, once : BOOLEAN]

\* except Exception: ...; raise SystemExit(1)
ConfigError ==
    /\ pc = "cli"
    /\ "raises" \in DOMAIN Settings(env.environ)
    /\ pc' = "exited"
    /\ hist' = [hist EXCEPT !.exit_status = Some(1)]
    /\ UNCHANGED <<sq, dy, backend, clock, cyc, ops, env>>

\* run_capture_cycle is entered: create_storage, storage.init() and the
\* first request to UDOT
CycleBegins(at) ==
    /\ pc' = at
    /\ ops' = ops + 1
    /\ cyc' = [cyc EXCEPT !.in_flight = @ + 1]
    /\ hist' = [hist EXCEPT !.calls = @ \cup {"storage.init", "is_wolf_creek_closed"}]
    /\ UNCHANGED <<sq, dy, backend, clock, env>>

\* # Run immediately
FirstCycleBegins ==
    /\ pc = "cli"
    /\ "returns" \in DOMAIN Settings(env.environ)
    /\ CycleBegins("first_cycle")

\* run_capture_cycle(settings) returns; if once: return
FirstCycleReturns ==
    /\ pc = "first_cycle"
    /\ \E d \in 0..MaxCycleHours :
        /\ clock + d <= MaxHours
        /\ clock' = clock + d
    /\ cyc' = [cyc EXCEPT !.in_flight = @ - 1]
    /\ hist' = [hist EXCEPT !.calls = @ \cup {"storage.save_cycle", "export"},
                            !.exit_status = IF env.once THEN Some(0) ELSE @]
    /\ pc' = IF env.once THEN "exited" ELSE "schedule"
    /\ UNCHANGED <<sq, dy, backend, ops, env>>

\* schedule.every(3).hours.do(run_capture_cycle, settings)
Schedule ==
    /\ pc = "schedule"
    /\ cyc' = [cyc EXCEPT !.next_run = Some(clock + Period)]
    /\ pc' = "run_pending"
    /\ UNCHANGED <<sq, dy, backend, clock, hist, ops, env>>

\* schedule.run_pending(): no job is due
RunPendingNothing ==
    /\ pc = "run_pending"
    /\ clock < cyc.next_run[1]
    /\ pc' = "sleep"
    /\ UNCHANGED <<sq, dy, backend, clock, cyc, hist, ops, env>>

\* run_pending that starts the due job on a thread of its own and goes on
RunPendingInThread ==
    /\ pc = "run_pending"
    /\ clock >= cyc.next_run[1]
    /\ ops' = ops + 1
    /\ cyc' = [cyc EXCEPT !.in_flight = @ + 1, !.next_run = Some(clock + Period)]
    /\ hist' = [hist EXCEPT !.calls = @ \cup {"storage.init", "is_wolf_creek_closed"}]
    /\ pc' = "sleep"
    /\ UNCHANGED <<sq, dy, backend, clock, env>>

\* schedule.run_pending(): the job is due, job_func() is called
RunPendingBegins ==
    /\ pc = "run_pending"
    /\ clock >= cyc.next_run[1]
    /\ CycleBegins("scheduled_cycle")

\* job_func() returns: last_run = now, next_run = now + period
RunPendingReturns ==
    /\ pc = "scheduled_cycle"
    /\ \E d \in 0..MaxCycleHours :
        /\ clock + d <= MaxHours
        /\ clock' = clock + d
        /\ cyc' = [cyc EXCEPT !.in_flight = @ - 1, !.next_run = Some(clock + d + Period)]
    /\ hist' = [hist EXCEPT !.calls = @ \cup {"storage.save_cycle", "export"}]
    /\ pc' = "sleep"
    /\ UNCHANGED <<sq, dy, backend, ops, env>>

\* time.sleep(60): the hour may turn
Sleep ==
    /\ pc = "sleep"
    /\ \E d \in {0, 1} :
        /\ clock + d <= MaxHours
        /\ clock' = clock + d
    /\ pc' = "run_pending"
    /\ UNCHANGED <<sq, dy, backend, cyc, hist, ops, env>>

\* run_capture_cycle raises: nothing in cli catches it, the process ends
CycleRaises ==
    /\ pc \in {"first_cycle", "scheduled_cycle"}
    /\ pc' = "exited"
    /\ cyc' = [cyc EXCEPT !.in_flight = @ - 1]
    /\ hist' = [hist EXCEPT !.exit_status = Some(1)]
    /\ UNCHANGED <<sq, dy, backend, clock, ops, env>>

\* except KeyboardInterrupt, around the polling loop
Interrupt ==
    /\ pc \in {"run_pending", "scheduled_cycle", "sleep"}
    /\ pc' = "exited"
    /\ cyc' = [cyc EXCEPT !.in_flight = 0]
    /\ hist' = [hist EXCEPT !.exit_status = Some(0)]
    /\ UNCHANGED <<sq, dy, backend, clock, ops, env>>

NextCli ==
    \/ ConfigError
    \/ FirstCycleBegins
    \/ FirstCycleReturns
    \/ Schedule
    \/ RunPendingNothing
    \/ RunPendingBegins
    \/ RunPendingReturns
    \/ Sleep
    \/ CycleRaises
    \/ Interrupt

SpecCli == InitCli /\ [][NextCli]_vars

\* C29 (configuration error): when Settings() raises because a required
\* credential is missing, the process makes one step, the exit with status 1:
\* no cycle is ever started, no storage call and no call to a collaborator is
\* made, and both stores stay as they were.
C29_ConfigErrorIsFatal ==
    /\ [](~({"UDOT_API_KEY", "ANTHROPIC_API_KEY"} \subseteq env.environ) =>
            /\ pc \in {"cli", "exited"}
            /\ ops = 0
            /\ cyc.in_flight = 0
            /\ hist.calls = {}
            /\ sq = SQLiteStorage_init /\ dy = DynamoStorage_init
            /\ pc = "exited" => hist.exit_status = Some(1))
    /\ [][(pc = "cli" /\ ~({"UDOT_API_KEY", "ANTHROPIC_API_KEY"} \subseteq env.environ)) =>
            (pc' = "exited" /\ hist'.exit_status = Some(1))]_vars

\* C29 witness: the process has exited with status 1 with only the UDOT key
\* configured, before any cycle.
C29_Witness ==
    /\ pc = "exited"
    /\ env.environ = {"UDOT_API_KEY"}
    /\ hist.exit_status = Some(1)
    /\ ops = 0

\* C30 (one cycle in flight): in the command line's process at most one
\* run_capture_cycle is running at any time, and a cycle begins only when
\* none is running; a scheduled cycle begins only after the first cycle
\* returned, and no earlier than one period after the cycle before it
\* returned, however long that one took.
C30_OneCycleInFlight ==
    /\ [](/\ cyc.in_flight \in {0, 1}
          /\ cyc.in_flight = 1 <=> pc \in {"first_cycle", "scheduled_cycle"})
    /\ [][(ops' = ops + 1) =>
            /\ cyc.in_flight = 0
            /\ cyc'.in_flight = 1
            /\ ops >= 1 =>
                /\ "storage.save_cycle" \in hist.calls
                /\ cyc.next_run # None
                /\ clock >= cyc.next_run[1]]_vars

\* C30 witness: the first scheduled cycle is running; the immediate cycle
\* took longer than a period (the job was registered, one period ahead, only
\* when that cycle had returned after MaxCycleHours hours).
C30_Witness ==
    /\ pc = "scheduled_cycle"
    /\ ops = 2
    /\ MaxCycleHours > Period
    /\ cyc.next_run = Some(MaxCycleHours + Period)
    /\ cyc.in_flight = 1

\* C31 (haversine_km, zero and symmetry): haversine_km of a point and itself
\* is 0, and haversine_km of two points is the same number whichever of the
\* two is given first.
C31_HaversineZeroAndSymmetric ==
    (pc = "returned" /\ env.call = "haversine_km") =>
        /\ "returns" \in DOMAIN cyc
        /\ cyc.returns = haversine_km(env.lat2, env.lon2, env.lat1, env.lon1)
        /\ (env.lat1 = env.lat2 /\ env.lon1 = env.lon2) => cyc.returns = 0

\* two points that differ in latitude and in longitude, a distance apart
C31_Witness ==
    /\ pc = "returned"
    /\ env.call = "haversine_km"
    /\ env.lat1 # env.lat2
    /\ env.lon1 # env.lon2
    /\ env.lat1 # 0
    /\ cyc.returns > 0

\* C32 (summary, route fields): once step 6 has saved it, the CycleSummary
\* stored under the cycle's id carries,
\* as travel_time_s and distance_m, the duration_s and distance_m of the
\* first route of the list the cycle used (the fetched list, or the stored
\* list of the fallback), and None for both exactly when that list is empty.
C32_SummaryRouteFields ==
    (pc = "export") =>
        LET saved == {c \in Range(storage_get_cycles(storage, CyclesLimit)) :
                         c.cycle_id = cyc.cycle_id}
        IN  /\ saved # {}
            /\ \A c \in saved :
                /\ c.travel_time_s = IF cyc.routes = <<>> THEN None
                                     ELSE Some(cyc.routes[1].duration_s)
                /\ c.distance_m = IF cyc.routes = <<>> THEN None
                                  ELSE Some(cyc.routes[1].distance_m)

\* a cycle whose route fetch failed has saved its summary with the travel
\* time and distance of the first stored route
C32_Witness ==
    /\ pc = "export"
    /\ cyc.fallback
    /\ cyc.routes # <<>>
    /\ \E c \in Range(storage_get_cycles(storage, CyclesLimit)) :
        /\ c.cycle_id = cyc.cycle_id
        /\ c.travel_time_s = Some(cyc.routes[1].duration_s)
        /\ c.distance_m = Some(cyc.routes[1].distance_m)
        /\ c.distance_m # Some(0)

\* the last call of a log, or None
LastCall(log) == IF log = <<>> THEN None ELSE Some(log[Len(log)])

\* C34 (hash freshness): when the loop body of a camera whose download
\* succeeded has ended, with the unchanged-image capture or with the capture
\* of a new analysis, the hash stored for that camera is the SHA-256 of the
\* bytes just downloaded.
C34_HashFreshness ==
    \A id \in Range(get_all_camera_ids) :
        (LastCall(cyc.log) \in {Some(<<"skip", id>>), Some(<<"save_capture", id>>)}) =>
            storage_get_image_hash(storage, id) = Some(Sha256(cyc.image_data))

\* a cycle took the unchanged-image path for one camera and then analysed
\* new bytes of another, whose stored hash is now the hash of those bytes
C34_Witness ==
    \E id, other \in Range(get_all_camera_ids) :
        /\ id # other
        /\ LastCall(cyc.log) = Some(<<"save_capture", id>>)
        /\ Count(cyc.log, <<"skip", other>>) = 1
        /\ storage_get_image_hash(storage, id) = Some(Sha256(cyc.image_data))
        /\ storage_get_image_hash(storage, other) # None

\* C35 (skip-path frame): the iteration of a camera that takes the
\* unchanged-image path makes, of the calls that write or analyse, one
\* save_camera and one save_capture: no analysis, no save_image and no
\* save_image_hash for that camera; and the step after the hash comparison
\* leaves every stored hash, both image stores and the stored cameras as they
\* were and adds one capture to the cycle.
C35_SkipPathFrame ==
    /\ [](pc \notin {"harness", "idle"} =>
            \A k \in DOMAIN cyc.log :
                cyc.log[k][1] = "skip" =>
                    LET X == cyc.log[k][2]
                    IN  /\ Count(cyc.log, <<"analyze", X>>) = 0
                        /\ Count(cyc.log, <<"save_image", X>>) = 0
                        /\ Count(cyc.log, <<"save_image_hash", X>>) = 0
                        /\ Count(cyc.log, <<"save_capture", X>>) = 0
                        /\ Count(cyc.log, <<"skip", X>>) = 1
                        /\ Count(cyc.log, <<"save_camera", X>>) = 1
                        /\ k > 1 /\ cyc.log[k - 1] = <<"save_camera", X>>)
    /\ [][(pc = "skip") =>
            /\ \A id \in Range(get_all_camera_ids) :
                storage_get_image_hash(storage', id) = storage_get_image_hash(storage, id)
            /\ sq'.images = sq.images
            /\ dy'.bucket = dy.bucket
            /\ SQLiteStorage_get_cameras(sq') = SQLiteStorage_get_cameras(sq)
            /\ DynamoStorage_get_cameras(dy') = DynamoStorage_get_cameras(dy)
            /\ Len(storage_get_captures_by_cycle(storage', cyc.cycle_id))
                   = Len(storage_get_captures_by_cycle(storage, cyc.cycle_id)) + 1
            /\ cyc'.log = Append(cyc.log, <<"skip", cyc.cameras[cyc.i].Id>>)]_vars

\* the unchanged-image path has just ended for a camera whose hash and
\* image were stored by an earlier cycle
C35_Witness ==
    /\ pc \notin {"harness", "idle"}
    /\ LastCall(cyc.log) # None
    /\ LastCall(cyc.log)[1][1] = "skip"
    /\ storage_get_image_hash(storage, LastCall(cyc.log)[1][2]) = Some(cyc.image_hash)
    /\ (IF backend = "dynamo" THEN dy.bucket ELSE sq.images) # EmptyMap
    /\ Len(storage_get_captures_by_cycle(storage, cyc.cycle_id)) = 1

\* the CycleSummary records stored under the id of the running cycle
StoredSummaries ==
    {c \in Range(storage_get_cycles(storage, CyclesLimit)) : c.cycle_id = cyc.cycle_id}

\* C36 (cameras_processed), as claimed: once step 6 has saved the summary
\* of a cycle, its cameras_processed is the number of captures stored under
\* the cycle's id, also when the download failed for some camera.
C36_CamerasProcessed ==
    (pc = "export") =>
        \A c \in StoredSummaries :
            c.cameras_processed = Len(storage_get_captures_by_cycle(storage, cyc.cycle_id))

\* get_events of the backend of the run
storage_get_events(st, cycle_id) ==
    IF backend = "dynamo" THEN DynamoStorage_get_events(st, cycle_id)
    ELSE SQLiteStorage_get_events(st, cycle_id)

\* C37 (event_count), as claimed: once step 6 has saved the summary of a
\* cycle, its event_count is the number of events get_events returns for the
\* cycle's id, also when the events were fetched and save_events raised.
C37_EventCount ==
    (pc = "export") =>
        \A c \in StoredSummaries :
            c.event_count = Len(storage_get_events(storage, cyc.cycle_id))

\* C38 (routing failure keeps the stored routes), as claimed: when the route
\* step of a cycle gets a stub for a route whose fetch failed, a route stored
\* before the step under that route_id with a polyline is still stored after
\* it with the same polyline, distance_m and duration_s.
C38_RoutingFailureKeepsRoutes ==
    [][(pc = "routes" /\ pc' = "cameras" /\ ~cyc'.fallback) =>
        \A k \in DOMAIN cyc'.routes :
            cyc'.routes[k].polyline = "" =>
                \A i \in DOMAIN storage_get_routes(storage) :
                    LET old == storage_get_routes(storage)[i]
                        new == storage_get_routes(storage')
                    IN  (old.route_id = cyc'.routes[k].route_id /\ old.polyline # "") =>
                            \E j \in DOMAIN new :
                                /\ new[j].route_id = old.route_id
                                /\ new[j].polyline = old.polyline
                                /\ new[j].distance_m = old.distance_m
                                /\ new[j].duration_s = old.duration_s]_vars

\* C39 (batch saves are all-or-nothing), as claimed: a save_routes call that
\* raises part-way through its batch leaves get_routes as it was, and a
\* save_events, save_road_conditions or save_weather call that raises leaves
\* what get_events, get_road_conditions and get_weather return for the cycle
\* as it was, on both backends.
C39_BatchAtomicity ==
    /\ [][(pc = "routes" /\ pc' = "cameras" /\ hist'.faults = hist.faults + 1) =>
            storage_get_routes(storage') = storage_get_routes(storage)]_vars
    /\ [][(pc \in {"conditions", "events", "weather"} /\ hist'.faults = hist.faults + 1
            /\ pc' # "idle") =>
            /\ storage_get_events(storage', cyc.cycle_id)
                   = storage_get_events(storage, cyc.cycle_id)
            /\ SQLiteStorage_get_road_conditions(sq', cyc.cycle_id)
                   = SQLiteStorage_get_road_conditions(sq, cyc.cycle_id)
            /\ DynamoStorage_get_road_conditions(dy', cyc.cycle_id)
                   = DynamoStorage_get_road_conditions(dy, cyc.cycle_id)
            /\ SQLiteStorage_get_weather(sq', cyc.cycle_id)
                   = SQLiteStorage_get_weather(sq, cyc.cycle_id)
            /\ DynamoStorage_get_weather(dy', cyc.cycle_id)
                   = DynamoStorage_get_weather(dy, cyc.cycle_id)]_vars

-----------------------------------------------------------------------------
(* The cabin dashboard API (reolink_api/handler.py), ?action=sensorpush.     *)
(* One Lambda container handles one request at a time and keeps the module   *)
(* globals between requests.  cyc holds the globals (_sp_access_token,       *)
(* _sp_token_expiry, _sp_response_cache, _sp_cache_ts) and the locals of the *)
(* request being handled; hist holds the POSTs of the running _sp_request    *)
(* call, its result, the response last returned and the access token the     *)
(* SensorPush API issued last.  clock is time.time() in seconds; time passes *)
(* between requests.                                                         *)

\* most requests of one run
MaxRequests == 2

\* most times the clock is advanced in one run
MaxTicks == 2

\* _SP_CACHE_TTL = 300  # 5 minutes
_SP_CACHE_TTL == 300

\* max_pages = 15  # safety limit
max_pages == 15

\* the time between two requests: half the cache lifetime, and the 12 hours
\* a token is valid
Delays == {_SP_CACHE_TTL \div 2, 12 * 3600}

\* what urlopen, resp.read() and json.loads end in when they do not return:
\* HTTPError with its status, URLError (and OSError, a timeout), a body that
\* is not JSON, and http.client.HTTPException (IncompleteRead of a body cut
\* short, BadStatusLine), which is neither a URLError nor an OSError
UrlopenErrors ==
    {Raise(<<"HTTPError", 401>>), Raise(<<"HTTPError", 500>>), Raise(<<"URLError", 0>>),
     Raise(<<"JSONDecodeError", 0>>), Raise(<<"HTTPException", 0>>)}

\* except (urllib.error.URLError, json.JSONDecodeError, OSError); HTTPError
\* is a URLError
URLError == {"HTTPError", "URLError", "JSONDecodeError"}

\* the answers to POST /oauth/authorize: a body with or without the code
AuthorizeAnswers ==
    {Return([authorization |-> Some("code")]), Return([authorization |-> None])}
    \cup UrlopenErrors

\* the access token the API issues next: never the one it issued last
NextToken(issued) == IF issued = "token-a" THEN "token-b" ELSE "token-a"

\* the answers to POST /oauth/accesstoken: a body with or without the token
TokenAnswers(token) ==
    {Return([accesstoken |-> Some(token)]), Return([accesstoken |-> None])} \cup UrlopenErrors

\* the answers to POST /samples: per sensor no sample, fewer samples than the
\* limit, or a full page, with last_time or, for a full page, without
SampleAnswers ==
    {Return([sensors |-> s, last_time |-> "t"]) : s \in {"none", "some", "full"}}
    \cup {Return([sensors |-> "full", last_time |-> ""])}
    \cup UrlopenErrors

\* _sp_post: the parsed JSON, or None on the failures it catches
_sp_post(answer) ==
    IF "returns" \in DOMAIN answer THEN Return(Some(answer.returns))
    ELSE IF answer.raises[1] \in URLError THEN Return(None)
    ELSE answer

\* _sp_authorize: data.get("authorization") if data else None
_sp_authorize(answer) ==
    LET data == _sp_post(answer)
    IN  IF "raises" \in DOMAIN data THEN data
        ELSE IF data.returns = None THEN Return(None)
        ELSE Return(data.returns[1].authorization)

\* _sp_get_token: data.get("accesstoken") if data else None
_sp_get_token(answer) ==
    LET data == _sp_post(answer)
    IN  IF "raises" \in DOMAIN data THEN data
        ELSE IF data.returns = None THEN Return(None)
        ELSE Return(data.returns[1].accesstoken)

\* json.dumps(body)
json_dumps(body) == <<"json", body>>

\* _json_response(status, body)
_json_response(status, body) == [statusCode |-> status, body |-> json_dumps(body)]

\* the body _build_sensor_response returns: current is the latest reading,
\* None without sample data; reading_count is 0 in summary mode
_build_sensor_response(include_history, has_samples, now) ==
    [current |-> IF has_samples THEN Some(now) ELSE None,
     reading_count |-> IF include_history /\ has_samples THEN 1 ELSE 0,
     time_series |-> include_history /\ has_samples]

\* the locals of a request, before it is handled
NoRequest == [cache_key |-> "", page_num |-> 0, samples |-> FALSE, token |-> None,
              reauth |-> FALSE]

\* the running _sp_request call, before its first POST
NoCall == [posts |-> <<>>, result |-> [running |-> TRUE]]

InitSensor ==
    /\ sq = SQLiteStorage_init
    /\ dy = DynamoStorage_init
    /\ backend = "none"
    /\ clock = 0
    /\ pc = "idle"
    /\ cyc = [_sp_access_token |-> None, _sp_token_expiry |-> 0,
              _sp_response_cache |-> EmptyMap, _sp_cache_ts |-> EmptyMap,
              local |-> NoRequest]
    /\ hist = [call |-> NoCall, served |-> [statusCode |-> 0, cache_key |-> "", from_cache |-> FALSE], issued |-> "", ticks |-> 0]
    /\ ops = 0
    /\ env \in [SENSORPUSH_EMAIL : {"", "me@cabin"}, SENSORPUSH_PASSWORD : {"pw"}]

\* time passes between two requests
TimePasses ==
    /\ pc = "idle"
    /\ hist.ticks < MaxTicks
    /\ \E d \in Delays : clock' = clock + d
    /\ hist' = [hist EXCEPT !.ticks = @ + 1]
    /\ UNCHANGED <<sq, dy, backend, pc, cyc, ops, env>>

\* "history" if params.get("history") == "1" else "summary"
CacheKey(history) == IF history = Some("1") THEN "history" ELSE "summary"

\* cache_key in _sp_response_cache and (time.time() - cached_ts) < _SP_CACHE_TTL
CacheHit(cache_key) ==
    /\ cache_key \in DOMAIN cyc._sp_response_cache
    /\ clock - (IF cache_key \in DOMAIN cyc._sp_cache_ts
                THEN cyc._sp_cache_ts[cache_key] ELSE 0) < _SP_CACHE_TTL

\* a request arrives
Arrives ==
    /\ pc = "idle"
    /\ ops < MaxRequests
    /\ ops' = ops + 1

\* if not SENSORPUSH_EMAIL or not SENSORPUSH_PASSWORD: 500
HandleNoCredentials ==
    /\ Arrives
    /\ env.SENSORPUSH_EMAIL = "" \/ env.SENSORPUSH_PASSWORD = ""
    /\ hist' = [hist EXCEPT !.served =
                   [statusCode |-> 500, cache_key |-> "", from_cache |-> FALSE]]
    /\ UNCHANGED <<sq, dy, backend, clock, pc, cyc, env>>

\* return _sp_response_cache[cache_key]
HandleCached ==
    /\ Arrives
    /\ env.SENSORPUSH_EMAIL # "" /\ env.SENSORPUSH_PASSWORD # ""
    /\ \E history \in {None, Some("1")} :
        /\ CacheHit(CacheKey(history))
        /\ hist' = [hist EXCEPT !.served =
                       [statusCode |-> cyc._sp_response_cache[CacheKey(history)].statusCode,
                        cache_key |-> CacheKey(history), from_cache |-> TRUE,
                        response |-> cyc._sp_response_cache[CacheKey(history)]]]
    /\ UNCHANGED <<sq, dy, backend, clock, pc, cyc, env>>

\* body = _build_sensor_response(include_history): the first _sp_request
HandleFresh ==
    /\ Arrives
    /\ env.SENSORPUSH_EMAIL # "" /\ env.SENSORPUSH_PASSWORD # ""
    /\ \E history \in {None, Some("1")} :
        /\ ~CacheHit(CacheKey(history))
        /\ cyc' = [cyc EXCEPT !.local = [NoRequest EXCEPT !.cache_key = CacheKey(history)]]
    /\ pc' = "build"
    /\ UNCHANGED <<sq, dy, backend, clock, hist, env>>

\* _sp_request: token = _sp_ensure_token(), with a cached token that has not
\* expired, or without one
SpRequest ==
    /\ pc = "build"
    /\ hist' = [hist EXCEPT !.call = NoCall]
    /\ IF cyc._sp_access_token # None /\ clock < cyc._sp_token_expiry
       THEN /\ cyc' = [cyc EXCEPT !.local.token = cyc._sp_access_token,
                                  !.local.reauth = FALSE]
            /\ pc' = "post"
       ELSE /\ cyc' = [cyc EXCEPT !.local.reauth = FALSE]
            /\ pc' = "authorize"
    /\ UNCHANGED <<sq, dy, backend, clock, ops, env>>

\* a POST of the running call: its url, the Authorization header and the
\* HTTP status of the answer (0 without one)
Posted(url, token, answer) ==
    Append(hist.call.posts,
           [url |-> url, token |-> token,
            status |-> IF "returns" \in DOMAIN answer THEN 200
                       ELSE IF answer.raises[1] = "HTTPError" THEN answer.raises[2] ELSE 0])

\* an exception leaves _sp_request and, uncaught, the handler
RaisedOut(posts, exception) ==
    /\ hist' = [hist EXCEPT !.call = [posts |-> posts, result |-> exception],
                            !.served = [statusCode |-> 0, cache_key |-> cyc.local.cache_key,
                                        from_cache |-> FALSE, raised |-> exception.raises]]
    /\ cyc' = [cyc EXCEPT !.local = NoRequest]
    /\ pc' = "idle"

\* _sp_request returns to its caller
SpReturns(posts, result) ==
    /\ hist' = [hist EXCEPT !.call = [posts |-> posts, result |-> result]]
    /\ pc' = "returned"

\* _sp_ensure_token: auth_code = _sp_authorize()
SpAuthorize ==
    /\ pc = "authorize"
    /\ \E answer \in AuthorizeAnswers :
        LET auth_code == _sp_authorize(answer)
            posts == Posted("/oauth/authorize", None, answer)
        IN  IF "raises" \in DOMAIN auth_code
            THEN RaisedOut(posts, auth_code)
            ELSE IF auth_code.returns = None
            THEN SpReturns(posts, Return(None)) /\ UNCHANGED cyc
            ELSE /\ hist' = [hist EXCEPT !.call.posts = posts]
                 /\ pc' = "accesstoken"
                 /\ UNCHANGED cyc
    /\ UNCHANGED <<sq, dy, backend, clock, ops, env>>

\* _sp_ensure_token: token = _sp_get_token(auth_code); the token and its
\* expiry are cached
SpGetToken ==
    /\ pc = "accesstoken"
    /\ \E answer \in TokenAnswers(NextToken(hist.issued)) :
        LET token == _sp_get_token(answer)
            posts == Posted("/oauth/accesstoken", None, answer)
        IN  IF "raises" \in DOMAIN token
            THEN RaisedOut(posts, token)
            ELSE IF token.returns = None
            THEN SpReturns(posts, Return(None)) /\ UNCHANGED cyc
            ELSE /\ hist' = [hist EXCEPT !.call.posts = posts, !.issued = token.returns[1]]
                 /\ cyc' = [cyc EXCEPT !._sp_access_token = token.returns,
                                       !._sp_token_expiry = clock + (12 * 3600) - 300,
                                       !.local.token = token.returns]
                 /\ pc' = IF cyc.local.reauth THEN "retry" ELSE "post"
    /\ UNCHANGED <<sq, dy, backend, clock, ops, env>>

\* the first POST of _sp_request: on HTTP 401 the cached token is cleared and
\* _sp_ensure_token is called again
SpPost ==
    /\ pc = "post"
    /\ \E answer \in SampleAnswers :
        LET posts == Posted("/samples", cyc.local.token, answer)
        IN  IF "returns" \in DOMAIN answer
            THEN SpReturns(posts, Return(Some(answer.returns))) /\ UNCHANGED cyc
            ELSE IF answer.raises = <<"HTTPError", 401>>
            THEN /\ hist' = [hist EXCEPT !.call.posts = posts]
                 /\ cyc' = [cyc EXCEPT !._sp_access_token = None,
                                       !._sp_token_expiry = 0,
                                       !.local.reauth = TRUE]
                 /\ pc' = "authorize"
            ELSE IF answer.raises[1] \in URLError
            THEN SpReturns(posts, Return(None)) /\ UNCHANGED cyc
            ELSE RaisedOut(posts, answer)
    /\ UNCHANGED <<sq, dy, backend, clock, ops, env>>

\* the second POST of _sp_request: except Exception returns None
SpRetry ==
    /\ pc = "retry"
    /\ \E answer \in SampleAnswers :
        /\ SpReturns(Posted("/samples", cyc.local.token, answer),
                     IF "returns" \in DOMAIN answer THEN Return(Some(answer.returns))
                     ELSE Return(None))
    /\ UNCHANGED <<sq, dy, backend, clock, cyc, ops, env>>

\* data of the call that returned
Data == hist.call.result.returns

\* the page of _sp_fetch_samples held samples
PageHasSamples == Data # None /\ Data[1].sensors # "none"

\* _sp_fetch_samples goes on to the next page: a sensor returned a full page,
\* last_time is set and the page was not the last of max_pages
MorePages ==
    /\ Data # None
    /\ Data[1].sensors = "full"
    /\ Data[1].last_time # ""
    /\ cyc.local.page_num + 1 < max_pages

\* _sp_fetch_samples: start_ts = last_time, the next page
FetchNextPage ==
    /\ pc = "returned"
    /\ cyc.local.cache_key = "history"
    /\ MorePages
    /\ cyc' = [cyc EXCEPT !.local.page_num = @ + 1, !.local.samples = TRUE]
    /\ pc' = "build"
    /\ UNCHANGED <<sq, dy, backend, clock, hist, ops, env>>

\* response = _json_response(200, body); the response is cached under its
\* mode and returned
Respond ==
    /\ pc = "returned"
    /\ cyc.local.cache_key = "history" => ~MorePages
    /\ LET cache_key == cyc.local.cache_key
           body == _build_sensor_response(cache_key = "history",
                                          cyc.local.samples \/ PageHasSamples, clock)
           response == _json_response(200, body)
       IN  /\ cyc' = [cyc EXCEPT !._sp_response_cache = Upsert(@, cache_key, response),
                                 !._sp_cache_ts = Upsert(@, cache_key, clock),
                                 !.local = NoRequest]
           /\ hist' = [hist EXCEPT !.call = NoCall, !.served =
                          [statusCode |-> 200, cache_key |-> cache_key, from_cache |-> FALSE,
                           response |-> response]]
    /\ pc' = "idle"
    /\ UNCHANGED <<sq, dy, backend, clock, ops, env>>

NextSensor ==
    \/ TimePasses
    \/ HandleNoCredentials
    \/ HandleCached
    \/ HandleFresh
    \/ SpRequest
    \/ SpAuthorize
    \/ SpGetToken
    \/ SpPost
    \/ SpRetry
    \/ FetchNextPage
    \/ Respond

SpecSensor == InitSensor /\ [][NextSensor]_vars

\* the POSTs of the running _sp_request call to its endpoint
EndpointPosts == {i \in DOMAIN hist.call.posts : hist.call.posts[i].url = "/samples"}

\* the running _sp_request call got HTTP 401 for its first POST
Got401 == \E i \in EndpointPosts : hist.call.posts[i].status = 401

\* at most two POSTs to the endpoint, the second only after the first was
\* answered 401 and a new access token was obtained, and sent with that token
AtMostOneRetry ==
    /\ Cardinality(EndpointPosts) <= 2
    /\ \A i, j \in EndpointPosts :
        i < j =>
            /\ hist.call.posts[i].status = 401
            /\ \E k \in DOMAIN hist.call.posts :
                /\ i < k /\ k < j
                /\ hist.call.posts[k].url = "/oauth/accesstoken"
                /\ hist.call.posts[k].status = 200
            /\ hist.call.posts[j].token # None
            /\ hist.call.posts[j].token # hist.call.posts[i].token

\* C33 (_sp_request retries at most once), as claimed: one call sends at
\* most two POSTs to the endpoint, the second only after the first was
\* answered HTTP 401; the 401 clears the cached token and its expiry and a
\* fresh token is obtained before the retry; and after a 401 the call
\* returns, with None unless the retry was answered with JSON: it never
\* raises and never sends a third POST.
C33_RetryAtMostOnce ==
    /\ [](pc \in {"authorize", "accesstoken", "post", "retry", "returned", "idle"} =>
            /\ AtMostOneRetry
            /\ Got401 =>
                /\ "raises" \notin DOMAIN hist.call.result
                /\ ("returns" \in DOMAIN hist.call.result
                        /\ hist.call.result.returns # None) =>
                       /\ Cardinality(EndpointPosts) = 2
                       /\ Len(hist.call.posts) \in EndpointPosts
                       /\ hist.call.posts[Len(hist.call.posts)].status = 200)
    /\ [][(pc = "post" /\ pc' = "authorize") =>
            /\ cyc'._sp_access_token = None
            /\ cyc'._sp_token_expiry = 0]_vars

\* C40 (response cache), as claimed: a request changes the cache entry of
\* its own mode only; a response is served from the cache only while it is
\* younger than _SP_CACHE_TTL seconds, and it is the entry of the request's
\* mode; and no response built without a reading (no token, no sample data)
\* is in the cache.
C40_CachePolicy ==
    /\ [][\A k \in {"summary", "history"} :
            (k # cyc.local.cache_key) =>
                /\ (k \in DOMAIN cyc'._sp_response_cache) = (k \in DOMAIN cyc._sp_response_cache)
                /\ (k \in DOMAIN cyc._sp_response_cache) =>
                    /\ cyc'._sp_response_cache[k] = cyc._sp_response_cache[k]
                    /\ cyc'._sp_cache_ts[k] = cyc._sp_cache_ts[k]]_vars
    /\ [][(ops' = ops + 1 /\ hist'.served.from_cache) =>
            /\ hist'.served.cache_key \in DOMAIN cyc._sp_response_cache
            /\ clock - cyc._sp_cache_ts[hist'.served.cache_key] < _SP_CACHE_TTL
            /\ hist'.served.response = cyc._sp_response_cache[hist'.served.cache_key]]_vars
    /\ [](\A k \in DOMAIN cyc._sp_response_cache :
            cyc._sp_response_cache[k].body[2].current # None)

\* C8 (referential invariant), as claimed: in every state, mid-cycle
\* included, the cycle_id of every stored capture is the cycle_id of a stored
\* CycleSummary.
C8_CaptureHasCycle ==
    pc # "harness" =>
    \A c \in 1..clock :
        storage_get_captures_by_cycle(storage, c) # <<>> => c \in StoredCycleIds

C10_RouteFallback ==
    pc # "harness" =>
        /\ (pc = "cameras" /\ cyc.fallback) => cyc.routes = storage_get_routes(storage)
        /\ ~(pc = "idle" /\ hist.last.outcome = "raised" /\ hist.last.at = "routes")

====
